---------------------------- MODULE Spec2Model ----------------------------
(***************************************************************************)
(* Verification model of the disk-backed B+ tree (870255728/bptree).       *)
(*                                                                         *)
(* A page is modelled as the array of 32-bit words the code reads and      *)
(* writes through reinterpret_cast (KeyT = ValueT = int, page_id_t =       *)
(* int32_t): word 0 holds NodeHeader::is_leaf_, word 1 NodeHeader::size_,  *)
(* and the node views address keys, values and children at the offsets the *)
(* code computes, so slots left behind by a split or a removal stay in the *)
(* page exactly as memmove/memcpy leave them.                              *)
(***************************************************************************)
EXTENDS Integers, Sequences, FiniteSets, TLC

\* ------------------------------------------------------------------ bounds
MaxKey == 14
MaxVal == 1
MaxLeafSize == 4
MaxInternalSize == 3
MaxPageId == 30
MaxCalls == 1
MaxRestarts == 1
NumWriters == 2
ReaderLoad == 9
\* the buffer pool on its own: frames of the pool, largest page id, largest
\* word a client writes, largest pin count of a frame
PoolFrames == 2
MaxPoolPage == 2
MaxData == 1
MaxPins == 2
\* calls made on the buffer pool in one run
MaxPoolCalls == 8
\* the replacer on its own: frames it is asked about
ReplacerFrames == 4
\* a node on its own: largest capacity of the node
MaxNodeSize == 10

\* --------------------------------------------------------------- constants
INVALID_PAGE_ID == 0 - 1
\* the nullptr entry that stands for root_latch_ in a transaction's page set
NullPtr == 0 - 2
\* config.h: frames of the buffer pool
POOL_SIZE == 10
\* ConcurrentReadTest: reader threads
num_threads == 8

Keys == 1..MaxKey
Vals == 1..MaxVal
PageIds == 0..MaxPageId

\* words of a page the model keeps: header, next, two arrays and the slots
\* right behind them that an index equal to the capacity reaches
MaxCap == IF MaxLeafSize > MaxInternalSize THEN MaxLeafSize ELSE MaxInternalSize
PageWords == 2 * MaxCap + 5

ZeroPage == [i \in 1..PageWords |-> 0]

\* ------------------------------------------------------------ page access
W(p, i) == p[i + 1]

SetW(p, i, v) == [p EXCEPT ![i + 1] = v]

\* memcpy of n words from word src of page s to word dst of page d
\* (SubSeq turns the function into the tuple a page is)
CopyWords(d, dst, s, src, n) ==
    SubSeq([j \in 1..PageWords |->
               IF n > 0 /\ j - 1 >= dst /\ j - 1 < dst + n
               THEN s[src + (j - 1 - dst) + 1] ELSE d[j]],
           1, PageWords)

\* memmove of n words inside page p
MoveWords(p, dst, src, n) == CopyWords(p, dst, p, src, n)

\* ------------------------------------------------------------------- Node
Is_Leaf(p) == (W(p, 0) % 256) # 0

Get_Size(p) == W(p, 1)

Set_Size(p, n) == SetW(p, 1, n)

NodeInit(is_leaf) == SetW(SetW(ZeroPage, 0, IF is_leaf THEN 1 ELSE 0), 1, 0)

\* the smallest size the spec names, the ceiling of (max_size + 1) / 2
Get_Min_Size_Ceiling(max_size) == (max_size + 2) \div 2

Get_Min_Size(max_size) == (max_size + 1) \div 2

Is_Underflow(p, max_size) == Get_Size(p) < Get_Min_Size(max_size)

IS_Full(p, max_size) == Get_Size(p) >= max_size

\* the comparator, std::less<int>
Less(a, b) == a < b

\* std::lower_bound / std::upper_bound over the words base .. base+size-1
RECURSIVE LowerBoundFrom(_, _, _, _, _)
LowerBoundFrom(p, base, first, len, key) ==
    IF len <= 0 THEN first
    ELSE IF Less(W(p, base + first + (len \div 2)), key)
         THEN LowerBoundFrom(p, base, first + (len \div 2) + 1, len - (len \div 2) - 1, key)
         ELSE LowerBoundFrom(p, base, first, len \div 2, key)

RECURSIVE UpperBoundFrom(_, _, _, _, _)
UpperBoundFrom(p, base, first, len, key) ==
    IF len <= 0 THEN first
    ELSE IF ~Less(key, W(p, base + first + (len \div 2)))
         THEN UpperBoundFrom(p, base, first + (len \div 2) + 1, len - (len \div 2) - 1, key)
         ELSE UpperBoundFrom(p, base, first, len \div 2, key)

\* --------------------------------------------------------------- LeafNode
LeafNextOff == 2
LeafKeysOff == 3
LeafValsOff(max_size) == LeafKeysOff + max_size

Leaf_Key(p, i) == W(p, LeafKeysOff + i)
Leaf_Value_At(p, max_size, i) == W(p, LeafValsOff(max_size) + i)
Get_Next_Page_Id(p) == W(p, LeafNextOff)
Set_Next_Page_Id(p, id) == SetW(p, LeafNextOff, id)

LeafInit == Set_Next_Page_Id(NodeInit(TRUE), INVALID_PAGE_ID)

Find_Key_Index(p, key) == LowerBoundFrom(p, LeafKeysOff, 0, Get_Size(p), key)

\* index < size && !comparator(key, keys[index]) && !comparator(keys[index], key)
Leaf_Key_Is_At(p, index, key) ==
    index < Get_Size(p) /\ ~Less(key, Leaf_Key(p, index)) /\ ~Less(Leaf_Key(p, index), key)

Leaf_Get_Value_At(p, max_size, key, index) ==
    IF Leaf_Key_Is_At(p, index, key)
    THEN <<TRUE, Leaf_Value_At(p, max_size, index)>>
    ELSE <<FALSE, 0>>

\* LeafNode::Get_Value: <<found, value>>
Leaf_Get_Value(p, max_size, key) ==
    Leaf_Get_Value_At(p, max_size, key, Find_Key_Index(p, key))

\* the two memmoves of LeafNode::Insert: slots index.. move up by one
Leaf_Open_Slot(p, max_size, index, count) ==
    MoveWords(MoveWords(p, LeafKeysOff + index + 1, LeafKeysOff + index, count),
              LeafValsOff(max_size) + index + 1, LeafValsOff(max_size) + index, count)

\* the two memmoves of LeafNode::Remove: slots index+1.. move down by one
Leaf_Close_Slot(p, max_size, index, count) ==
    MoveWords(MoveWords(p, LeafKeysOff + index, LeafKeysOff + index + 1, count),
              LeafValsOff(max_size) + index, LeafValsOff(max_size) + index + 1, count)

\* keys[index] = key; values[index] = value
Leaf_Set_Slot(p, max_size, index, key, value) ==
    SetW(SetW(p, LeafKeysOff + index, key), LeafValsOff(max_size) + index, value)

Leaf_Insert_At(p, max_size, key, value, index, size) ==
    IF Leaf_Key_Is_At(p, index, key)
    THEN p
    ELSE Set_Size(Leaf_Set_Slot(Leaf_Open_Slot(p, max_size, index, size - index),
                                max_size, index, key, value),
                  size + 1)

\* LeafNode::Insert
Leaf_Insert(p, max_size, key, value) ==
    Leaf_Insert_At(p, max_size, key, value, Find_Key_Index(p, key), Get_Size(p))

Leaf_Remove_At(p, max_size, index, size) ==
    Set_Size(Leaf_Close_Slot(p, max_size, index, size - index - 1), size - 1)

Leaf_Remove_If(p, max_size, key, index) ==
    IF Leaf_Key_Is_At(p, index, key)
    THEN Leaf_Remove_At(p, max_size, index, Get_Size(p))
    ELSE p

Leaf_Remove_If_Unchecked(p, max_size, key, index) ==
    IF index < Get_Size(p)
    THEN Leaf_Remove_At(p, max_size, index, Get_Size(p))
    ELSE p

\* LeafNode::Remove without the comparison of the slot's key with key
Leaf_Remove_Unchecked(p, max_size, key) ==
    Leaf_Remove_If_Unchecked(p, max_size, key, Find_Key_Index(p, key))

\* LeafNode::Remove
Leaf_Remove(p, max_size, key) ==
    Leaf_Remove_If(p, max_size, key, Find_Key_Index(p, key))

\* what LeafNode::Split leaves and returns: dest_keys[0]
Leaf_Split_Done(src, dest) == <<src, dest, Leaf_Key(dest, 0)>>

Leaf_Split_At(src, dest, max_size, split_point, moved_count) ==
    Leaf_Split_Done(
        Set_Size(src, split_point),
        Set_Size(CopyWords(CopyWords(dest, LeafKeysOff, src, LeafKeysOff + split_point, moved_count),
                           LeafValsOff(max_size), src, LeafValsOff(max_size) + split_point, moved_count),
                 moved_count))

\* LeafNode::Split: <<source after, dest after, separator>>
Leaf_Split(src, dest, max_size) ==
    Leaf_Split_At(src, dest, max_size, Get_Size(src) \div 2, Get_Size(src) - (Get_Size(src) \div 2))

\* LeafNode::Move_Last_From: <<current after, sibling after>>
Leaf_Move_Last_From(cur, sib, max_size) ==
    <<Set_Size(Leaf_Set_Slot(Leaf_Open_Slot(cur, max_size, 0, Get_Size(cur)), max_size, 0,
                             Leaf_Key(sib, Get_Size(sib) - 1),
                             Leaf_Value_At(sib, max_size, Get_Size(sib) - 1)),
               Get_Size(cur) + 1),
      Set_Size(sib, Get_Size(sib) - 1)>>

\* LeafNode::Move_First_From: <<current after, sibling after>>
Leaf_Move_First_From(cur, sib, max_size) ==
    <<Set_Size(Leaf_Set_Slot(cur, max_size, Get_Size(cur), Leaf_Key(sib, 0), Leaf_Value_At(sib, max_size, 0)),
               Get_Size(cur) + 1),
      Set_Size(Leaf_Close_Slot(sib, max_size, 0, Get_Size(sib) - 1), Get_Size(sib) - 1)>>

\* LeafNode::Merge: current after
Leaf_Merge(cur, sib, max_size) ==
    Set_Next_Page_Id(
        Set_Size(CopyWords(CopyWords(cur, LeafKeysOff + Get_Size(cur), sib, LeafKeysOff, Get_Size(sib)),
                           LeafValsOff(max_size) + Get_Size(cur), sib, LeafValsOff(max_size), Get_Size(sib)),
                 Get_Size(cur) + Get_Size(sib)),
        Get_Next_Page_Id(sib))

\* ----------------------------------------------------------- InternalNode
IntKeysOff == 2
IntChildOff(max_size) == IntKeysOff + max_size

Int_Key(p, i) == W(p, IntKeysOff + i)
Child_At(p, max_size, i) == W(p, IntChildOff(max_size) + i)

InternalInit == NodeInit(FALSE)

\* InternalNode::Lookup
Lookup(p, max_size, key) ==
    Child_At(p, max_size, UpperBoundFrom(p, IntKeysOff, 0, Get_Size(p), key))

Internal_Insert_At(p, max_size, key, child_page_id, index, size) ==
    Set_Size(
        SetW(SetW(MoveWords(MoveWords(p, IntKeysOff + index + 1, IntKeysOff + index, size - index),
                            IntChildOff(max_size) + index + 2, IntChildOff(max_size) + index + 1,
                            size - index),
                  IntKeysOff + index, key),
             IntChildOff(max_size) + index + 1, child_page_id),
        size + 1)

\* InternalNode::Insert
Internal_Insert(p, max_size, key, child_page_id) ==
    Internal_Insert_At(p, max_size, key, child_page_id,
                       UpperBoundFrom(p, IntKeysOff, 0, Get_Size(p), key), Get_Size(p))

Internal_Split_At(src, dest, max_size, split_point, source_size) ==
    <<Set_Size(src, split_point),
      Set_Size(CopyWords(CopyWords(dest, IntKeysOff, src, IntKeysOff + split_point + 1,
                                   source_size - split_point - 1),
                         IntChildOff(max_size), src, IntChildOff(max_size) + split_point + 1,
                         source_size - split_point),
               source_size - split_point - 1),
      Int_Key(src, split_point)>>

\* InternalNode::Split: <<source after, dest after, key_to_parent>>
Internal_Split(src, dest, max_size) ==
    Internal_Split_At(src, dest, max_size, max_size \div 2, Get_Size(src))

\* InternalNode::Populate_New_Root
Populate_New_Root(p, max_size, key, left_child_id, right_child_id) ==
    SetW(SetW(SetW(Set_Size(p, 1), IntKeysOff, key), IntChildOff(max_size), left_child_id),
         IntChildOff(max_size) + 1, right_child_id)

RECURSIVE FindChildFrom(_, _, _, _)
FindChildFrom(p, max_size, i, child_id) ==
    IF i > Get_Size(p) THEN 0 - 1
    ELSE IF Child_At(p, max_size, i) = child_id THEN i
    ELSE FindChildFrom(p, max_size, i + 1, child_id)

\* InternalNode::Find_Child_Index
Find_Child_Index(p, max_size, child_id) == FindChildFrom(p, max_size, 0, child_id)

\* InternalNode::Remove_At
Remove_At(p, max_size, key_index) ==
    Set_Size(
        MoveWords(MoveWords(p, IntKeysOff + key_index, IntKeysOff + key_index + 1,
                            Get_Size(p) - key_index - 1),
                  IntChildOff(max_size) + key_index + 1, IntChildOff(max_size) + key_index + 2,
                  Get_Size(p) - key_index - 1),
        Get_Size(p) - 1)

Set_Key_At(p, index, key) == SetW(p, IntKeysOff + index, key)

\* InternalNode::Move_Last_From: <<current, sibling, parent>> after
Internal_Move_Last_From(cur, sib, max_size, parent, parent_key_index) ==
    <<Set_Size(
          SetW(SetW(MoveWords(MoveWords(cur, IntKeysOff + 1, IntKeysOff, Get_Size(cur)),
                              IntChildOff(max_size) + 1, IntChildOff(max_size), Get_Size(cur) + 1),
                    IntKeysOff, Int_Key(parent, parent_key_index)),
               IntChildOff(max_size), Child_At(sib, max_size, Get_Size(sib))),
          Get_Size(cur) + 1),
      Set_Size(sib, Get_Size(sib) - 1),
      Set_Key_At(parent, parent_key_index, Int_Key(sib, Get_Size(sib) - 1))>>

\* InternalNode::Move_First_From: <<current, sibling, parent>> after
Internal_Move_First_From(cur, sib, max_size, parent, parent_key_index) ==
    <<Set_Size(
          SetW(SetW(cur, IntKeysOff + Get_Size(cur), Int_Key(parent, parent_key_index)),
               IntChildOff(max_size) + Get_Size(cur) + 1, Child_At(sib, max_size, 0)),
          Get_Size(cur) + 1),
      Set_Size(
          MoveWords(MoveWords(sib, IntKeysOff, IntKeysOff + 1, Get_Size(sib) - 1),
                    IntChildOff(max_size), IntChildOff(max_size) + 1, Get_Size(sib)),
          Get_Size(sib) - 1),
      Set_Key_At(parent, parent_key_index, Int_Key(sib, 0))>>

\* InternalNode::Merge_Into: current after
Merge_Into(cur, sib, max_size, parent, parent_key_index) ==
    Set_Size(
        CopyWords(
            CopyWords(SetW(cur, IntKeysOff + Get_Size(cur), Int_Key(parent, parent_key_index)),
                      IntKeysOff + Get_Size(cur) + 1, sib, IntKeysOff, Get_Size(sib)),
            IntChildOff(max_size) + Get_Size(cur) + 1, sib, IntChildOff(max_size), Get_Size(sib) + 1),
        Get_Size(cur) + Get_Size(sib) + 1)

\* ---------------------------------------------------------- tree engine
\* what FetchPage(id) hands to the engine: the bytes of the page.  Reads past
\* the end of the file yield a zero page (DiskManager::ReadPage).
Content(m, pid) == IF pid \in PageIds THEN m[pid] ELSE ZeroPage

\* BPlusTree::Is_Safe_Page
Is_Safe_Page(p, is_leaf, is_root, op, L, I) ==
    CASE op = "Read" -> TRUE
      [] op = "Insert" -> IF is_leaf THEN Get_Size(p) < L - 1 ELSE Get_Size(p) < I
      [] OTHER -> IF is_root THEN (IF is_leaf THEN Get_Size(p) > 1 ELSE Get_Size(p) > 2)
                  ELSE IF is_leaf THEN Get_Size(p) > (L \div 2)
                  ELSE Get_Size(p) > ((I + 1) \div 2)

\* longest descent the model follows before it reports that the walk does
\* not end (a cycle among corrupted child pointers)
DescentFuel == MaxPageId + 2

\* the page ids Get_Leaf_Page visits from `pid` down to the leaf for `key`:
\* [st |-> "ok" | "throw" | "hang", path |-> <<root, ..., leaf>>]
RECURSIVE Descend(_, _, _, _, _, _)
Descend(m, I, pid, key, acc, fuel) ==
    IF pid < 0 THEN [st |-> "throw", path |-> acc]
    ELSE IF fuel = 0 THEN [st |-> "hang", path |-> acc]
    ELSE IF Is_Leaf(Content(m, pid)) THEN [st |-> "ok", path |-> Append(acc, pid)]
    ELSE Descend(m, I, Lookup(Content(m, pid), I, key), key, Append(acc, pid), fuel - 1)

\* Begin(): the walk along Child_At(.., 0)
RECURSIVE DescendLeft(_, _, _, _, _)
DescendLeft(m, I, pid, acc, fuel) ==
    IF pid < 0 THEN [st |-> "throw", path |-> acc]
    ELSE IF fuel = 0 THEN [st |-> "hang", path |-> acc]
    ELSE IF Is_Leaf(Content(m, pid)) THEN [st |-> "ok", path |-> Append(acc, pid)]
    ELSE DescendLeft(m, I, Child_At(Content(m, pid), I, 0), Append(acc, pid), fuel - 1)

Last(s) == s[Len(s)]

SeqToSet(s) == {s[i] : i \in 1..Len(s)}

\* found ? <<"true", value>> : <<"false", 0>>
Found(r) == IF r[1] THEN <<"true", r[2]>> ELSE <<"false", 0>>

Get_Value_On(m, L, key, d) ==
    IF d.st # "ok" THEN <<d.st, 0>>
    ELSE Found(Leaf_Get_Value(Content(m, Last(d.path)), L, key))

\* BPlusTree::Get_Value on the tree (m, root): <<outcome, value>>, outcome is
\* "true", "false", "throw" or "hang"
Get_Value(m, root, L, I, key) ==
    IF root = INVALID_PAGE_ID THEN <<"false", 0>>
    ELSE Get_Value_On(m, L, key, Descend(m, I, root, key, <<>>, DescentFuel))

\* A tree state t is a record
\*   mem   : page id -> page     bytes FetchPage returns for the page
\*   disk  : page id -> page     bytes in the file
\*   flen  : number of pages the file holds
\*   dirty : set of page ids whose frame has is_dirty_ set
\*   root  : root_page_id_
\*   next  : DiskManager::next_page_id_
Max2(a, b) == IF a > b THEN a ELSE b

\* UnpinPage(pid, true) for the pages pids
MarkDirty(t, pids) == [t EXCEPT !.dirty = @ \cup pids]

\* BufferPoolManager::FlushPage
FlushPage(t, pid) ==
    IF pid \notin PageIds THEN t
    ELSE [t EXCEPT !.disk = [@ EXCEPT ![pid] = t.mem[pid]],
                   !.flen = Max2(@, pid + 1),
                   !.dirty = @ \ {pid}]

\* BufferPoolManager::DeletePage of an unpinned resident page: the frame is
\* reset and dropped, a later fetch reads the file again
DeletePage(t, pid) ==
    IF pid \notin PageIds THEN t
    ELSE [t EXCEPT !.mem = [@ EXCEPT ![pid] = t.disk[pid]],
                   !.dirty = @ \ {pid}]

RECURSIVE DeletePages(_, _)
DeletePages(t, del) ==
    IF del = {} THEN t
    ELSE DeletePages(DeletePage(t, CHOOSE x \in del : TRUE), del \ {CHOOSE x \in del : TRUE})

\* BufferPoolManager::FlushAllPages
RECURSIVE FlushAllPages(_, _)
FlushAllPages(t, todo) ==
    IF todo = {} THEN t
    ELSE FlushAllPages(FlushPage(t, CHOOSE x \in todo : TRUE), todo \ {CHOOSE x \in todo : TRUE})

\* the write of root_page_id_ into the first word of the meta page
WriteMeta(t) ==
    FlushPage([t EXCEPT !.mem = [@ EXCEPT ![0] = SetW(@, 0, t.root)], !.dirty = @ \cup {0}], 0)

\* the new root leaf of Start_New_Tree in page new_page_id: it is flushed,
\* the meta page is written, and the guard unpins the leaf as dirty
Start_Root_At(t, new_page_id, leaf) ==
    MarkDirty(WriteMeta(FlushPage([t EXCEPT !.next = new_page_id + 1,
                                            !.root = new_page_id,
                                            !.mem = [@ EXCEPT ![new_page_id] = leaf]],
                                  new_page_id)),
              {new_page_id})

\* BPlusTree::Start_New_Tree.  When NewPage hands out id 0, the frame of
\* page 0 is a fresh zeroed one, DeletePage(0) fails on the pinned frame and
\* a second page is allocated.
Start_New_Tree(t, L, key, value) ==
    IF t.next = 0
    THEN Start_Root_At([t EXCEPT !.mem = [@ EXCEPT ![0] = ZeroPage], !.dirty = @ \ {0}],
                       1, Leaf_Insert(LeafInit, L, key, value))
    ELSE Start_Root_At(t, t.next, Leaf_Insert(LeafInit, L, key, value))

\* Insert's "create a new root" branch
New_Root(t, I, up_key, left_child_id, right_child_id) ==
    [t EXCEPT !.mem = [@ EXCEPT ![t.next] =
                          Populate_New_Root(InternalInit, I, up_key, left_child_id, right_child_id)],
              !.next = t.next + 1,
              !.root = t.next,
              !.dirty = @ \cup {t.next}]

\* the split propagation loop of Insert; idx is the position of `current`
\* in path, pp the parent after InternalNode::Insert, sp the result of its
\* Split
RECURSIVE PropagateSplit(_, _, _, _, _, _)
RECURSIVE Propagate_Into(_, _, _, _, _)
RECURSIVE Propagate_Up(_, _, _, _, _)
PropagateSplit(t, I, path, idx, up_key, new_child_id) ==
    IF idx <= 1
    THEN New_Root(t, I, up_key, path[1], new_child_id)
    ELSE Propagate_Into(t, I, path, idx,
                        Internal_Insert(Content(t.mem, path[idx - 1]), I, up_key, new_child_id))

Propagate_Into(t, I, path, idx, pp) ==
    IF ~IS_Full(pp, I)
    THEN [t EXCEPT !.mem = [@ EXCEPT ![path[idx - 1]] = pp]]
    ELSE Propagate_Up(t, I, path, idx, Internal_Split(pp, InternalInit, I))

Propagate_Up(t, I, path, idx, sp) ==
    PropagateSplit([t EXCEPT !.mem = [@ EXCEPT ![path[idx - 1]] = sp[1], ![t.next] = sp[2]],
                             !.next = t.next + 1,
                             !.dirty = @ \cup {t.next}],
                   I, path, idx - 1, sp[3], t.next)

\* the halves of the split leaf with the chain pointers set and the new
\* pair in the half the comparison with up_key selects
Split_Left(sp, L, key, value, new_leaf_id) ==
    IF Less(key, sp[3])
    THEN Leaf_Insert(Set_Next_Page_Id(sp[1], new_leaf_id), L, key, value)
    ELSE Set_Next_Page_Id(sp[1], new_leaf_id)

Split_Right(sp, L, key, value) ==
    IF Less(key, sp[3])
    THEN Set_Next_Page_Id(sp[2], Get_Next_Page_Id(sp[1]))
    ELSE Leaf_Insert(Set_Next_Page_Id(sp[2], Get_Next_Page_Id(sp[1])), L, key, value)

Split_Leaf_With(t, L, I, path, key, value, sp) ==
    PropagateSplit([t EXCEPT !.mem = [@ EXCEPT ![Last(path)] = Split_Left(sp, L, key, value, t.next),
                                               ![t.next] = Split_Right(sp, L, key, value)],
                             !.next = t.next + 1,
                             !.dirty = @ \cup {t.next}],
                   I, path, Len(path), sp[3], t.next)

\* the leaf split of Insert followed by the propagation
SplitInsert(t, L, I, path, key, value) ==
    Split_Leaf_With(t, L, I, path, key, value, Leaf_Split(Content(t.mem, Last(path)), LeafInit, L))

\* the pages a call holds when it reaches the leaf: the leaf alone after
\* the first round, the whole path after the second
Held_Pages(t, L, I, path, op) ==
    IF Is_Safe_Page(Content(t.mem, Last(path)), TRUE, Last(path) = t.root, op, L, I)
    THEN {Last(path)}
    ELSE SeqToSet(path)

Insert_At_Leaf(t, L, I, key, value, path, lp) ==
    IF Leaf_Get_Value(lp, L, key)[1]
    THEN [t |-> MarkDirty(t, Held_Pages(t, L, I, path, "Insert")), res |-> "false"]
    ELSE IF ~IS_Full(lp, L)
    THEN [t |-> [MarkDirty(t, Held_Pages(t, L, I, path, "Insert"))
                    EXCEPT !.mem = [@ EXCEPT ![Last(path)] = Leaf_Insert(lp, L, key, value)]],
          res |-> "true"]
    ELSE [t |-> SplitInsert(MarkDirty(t, SeqToSet(path)), L, I, path, key, value),
          res |-> "true"]

Insert_On(t, L, I, key, value, d) ==
    IF d.st # "ok" THEN [t |-> t, res |-> d.st]
    ELSE Insert_At_Leaf(t, L, I, key, value, d.path, Content(t.mem, Last(d.path)))

\* BPlusTree::Insert with a transaction: [t |-> tree after, res |-> outcome]
Insert(t, L, I, key, value) ==
    IF t.root = INVALID_PAGE_ID
    THEN [t |-> Start_New_Tree(t, L, key, value), res |-> "true"]
    ELSE Insert_On(t, L, I, key, value, Descend(t.mem, I, t.root, key, <<>>, DescentFuel))

\* position of the nearest non-null entry of the page set before cur_idx
\* (0 when there is none)
RECURSIVE ParentIdx(_, _)
ParentIdx(ps, i) ==
    IF i < 1 THEN 0
    ELSE IF ps[i] # NullPtr THEN i
    ELSE ParentIdx(ps, i - 1)

\* Handle_Underflow works on h = [t, del, st]: tree, deleted page set, "ok"
\* or "throw".  Its root branch without the case of the root leaf that has
\* lost its last key:
Underflow_At_Root_Kept(h, I, page, pd) ==
    IF Get_Size(pd) # 0 \/ Is_Leaf(pd) THEN h
    ELSE [h EXCEPT !.t = [@ EXCEPT !.root = Child_At(pd, I, 0)], !.del = @ \cup {page}]

\* the root branch of Handle_Underflow
Underflow_At_Root(h, I, page, pd) ==
    IF Get_Size(pd) # 0 THEN h
    ELSE IF Is_Leaf(pd)
    THEN [h EXCEPT !.t = [@ EXCEPT !.root = INVALID_PAGE_ID], !.del = @ \cup {page}]
    ELSE [h EXCEPT !.t = [@ EXCEPT !.root = Child_At(pd, I, 0)], !.del = @ \cup {page}]

\* the node, its parent and the siblings Handle_Underflow fetches and
\* latches; a sibling's fields mean something only where has_left /
\* has_right is set
Siblings(t, I, page, parent, par_idx, index_in_parent, pa) ==
    [page |-> page, parent |-> parent, par_idx |-> par_idx, idx |-> index_in_parent,
     pd |-> Content(t.mem, page), pa |-> pa,
     has_left |-> index_in_parent > 0,
     has_right |-> index_in_parent < Get_Size(pa),
     left_id |-> Child_At(pa, I, index_in_parent - 1),
     right_id |-> Child_At(pa, I, index_in_parent + 1),
     ld |-> Content(t.mem, Child_At(pa, I, index_in_parent - 1)),
     rd |-> Content(t.mem, Child_At(pa, I, index_in_parent + 1))]

\* Release_Siblings: both siblings are unpinned as dirty
SiblingIds(c) ==
    (IF c.has_left THEN {c.left_id} ELSE {}) \cup (IF c.has_right THEN {c.right_id} ELSE {})

\* the node, one sibling and the parent as a borrow leaves them
Store_Borrow(h, c, sib_id, cur, sib, pa1) ==
    [h EXCEPT !.t = [MarkDirty(h.t, SiblingIds(c))
                        EXCEPT !.mem = [@ EXCEPT ![c.page] = cur, ![sib_id] = sib, ![c.parent] = pa1]]]

Borrow_Left_Leaf(h, c, mv) ==
    Store_Borrow(h, c, c.left_id, mv[1], mv[2], Set_Key_At(c.pa, c.idx - 1, Leaf_Key(mv[1], 0)))

Borrow_Right_Leaf(h, c, mv) ==
    Store_Borrow(h, c, c.right_id, mv[1], mv[2], Set_Key_At(c.pa, c.idx, Leaf_Key(mv[2], 0)))

Borrow_Internal(h, c, sib_id, mv) == Store_Borrow(h, c, sib_id, mv[1], mv[2], mv[3])

Borrow_Left(h, L, I, c) ==
    IF Is_Leaf(c.pd)
    THEN Borrow_Left_Leaf(h, c, Leaf_Move_Last_From(c.pd, c.ld, L))
    ELSE Borrow_Internal(h, c, c.left_id, Internal_Move_Last_From(c.pd, c.ld, I, c.pa, c.idx - 1))

Borrow_Right(h, L, I, c) ==
    IF Is_Leaf(c.pd)
    THEN Borrow_Right_Leaf(h, c, Leaf_Move_First_From(c.pd, c.rd, L))
    ELSE Borrow_Internal(h, c, c.right_id, Internal_Move_First_From(c.pd, c.rd, I, c.pa, c.idx))

\* the merge target and the parent as a merge leaves them; the emptied page
\* joins the deleted page set
Store_Merge(h, c, target, gone, merged, pa1) ==
    [h EXCEPT !.t = [MarkDirty(h.t, SiblingIds(c))
                        EXCEPT !.mem = [@ EXCEPT ![target] = merged, ![c.parent] = pa1]],
              !.del = @ \cup {gone}]

\* the size the node's kind allows
Max_Size_Of(p, L, I) == IF Is_Leaf(p) THEN L ELSE I

\* BPlusTree::Handle_Underflow on the page at position cur_idx of the page
\* set ps
RECURSIVE Handle_Underflow(_, _, _, _, _)
After_Merge(h1, L, I, ps, par_idx, pa1) ==
    IF Is_Underflow(pa1, I)
    THEN Handle_Underflow(h1, L, I, ps, par_idx)
    ELSE h1

Merge_With(h, L, I, ps, c, target, gone, merged, pa1) ==
    After_Merge(Store_Merge(h, c, target, gone, merged, pa1), L, I, ps, c.par_idx, pa1)

Merge_Left(h, L, I, ps, c) ==
    Merge_With(h, L, I, ps, c, c.left_id, c.page,
               IF Is_Leaf(c.pd) THEN Leaf_Merge(c.ld, c.pd, L)
               ELSE Merge_Into(c.ld, c.pd, I, c.pa, c.idx - 1),
               Remove_At(c.pa, I, c.idx - 1))

Merge_Right(h, L, I, ps, c) ==
    Merge_With(h, L, I, ps, c, c.page, c.right_id,
               IF Is_Leaf(c.pd) THEN Leaf_Merge(c.pd, c.rd, L)
               ELSE Merge_Into(c.pd, c.rd, I, c.pa, c.idx),
               Remove_At(c.pa, I, c.idx))

Underflow_With(h, L, I, ps, c) ==
    IF c.has_left /\ Get_Size(c.ld) > Get_Min_Size(Max_Size_Of(c.pd, L, I))
    THEN Borrow_Left(h, L, I, c)
    ELSE IF c.has_right /\ Get_Size(c.rd) > Get_Min_Size(Max_Size_Of(c.pd, L, I))
    THEN Borrow_Right(h, L, I, c)
    ELSE IF c.has_left THEN Merge_Left(h, L, I, ps, c)
    ELSE IF c.has_right THEN Merge_Right(h, L, I, ps, c)
    ELSE [h EXCEPT !.st = "throw"]

Underflow_In_Parent(h, L, I, ps, cur_idx, par_idx, index_in_parent) ==
    IF index_in_parent = 0 - 1 THEN [h EXCEPT !.st = "throw"]
    ELSE Underflow_With(h, L, I, ps,
                        Siblings(h.t, I, ps[cur_idx], ps[par_idx], par_idx, index_in_parent,
                                 Content(h.t.mem, ps[par_idx])))

Underflow_Under(h, L, I, ps, cur_idx, par_idx) ==
    IF par_idx = 0 THEN [h EXCEPT !.st = "throw"]
    ELSE Underflow_In_Parent(h, L, I, ps, cur_idx, par_idx,
                             Find_Child_Index(Content(h.t.mem, ps[par_idx]), I, ps[cur_idx]))

Handle_Underflow(h, L, I, ps, cur_idx) ==
    IF ps[cur_idx] = h.t.root
    THEN Underflow_At_Root(h, I, ps[cur_idx], Content(h.t.mem, ps[cur_idx]))
    ELSE Underflow_Under(h, L, I, ps, cur_idx, ParentIdx(ps, cur_idx - 1))

\* the transaction's page set when Remove reaches the leaf: the leaf alone
\* after the first round, nullptr and the whole path after the second
Page_Set(t, L, I, path) ==
    IF Is_Safe_Page(Content(t.mem, Last(path)), TRUE, Last(path) = t.root, "Remove", L, I)
    THEN <<Last(path)>>
    ELSE <<NullPtr>> \o path

\* the state after LeafNode::Remove left lp1 in the leaf
Leaf_Removed(t, ps, lp1) ==
    [t |-> [MarkDirty(t, SeqToSet(ps) \ {NullPtr}) EXCEPT !.mem = [@ EXCEPT ![Last(ps)] = lp1]],
     del |-> {}, st |-> "ok"]

\* Release_W_Latches, then DeletePage for the deleted page set
Remove_Done(h) ==
    IF h.st # "ok" THEN [t |-> h.t, res |-> h.st]
    ELSE [t |-> DeletePages(h.t, h.del), res |-> "ok"]

Remove_From_Leaf(t, L, I, ps, lp, lp1) ==
    IF Get_Size(lp1) < Get_Size(lp) /\ Is_Underflow(lp1, L)
    THEN Remove_Done(Handle_Underflow(Leaf_Removed(t, ps, lp1), L, I, ps, Len(ps)))
    ELSE Remove_Done(Leaf_Removed(t, ps, lp1))

Remove_At_Leaf(t, L, I, key, ps, lp) ==
    Remove_From_Leaf(t, L, I, ps, lp, Leaf_Remove(lp, L, key))

Remove_On(t, L, I, key, d) ==
    IF d.st # "ok" THEN [t |-> t, res |-> d.st]
    ELSE Remove_At_Leaf(t, L, I, key, Page_Set(t, L, I, d.path), Content(t.mem, Last(d.path)))

\* BPlusTree::Remove with a transaction: [t |-> tree after, res |-> "ok",
\* "throw" or "hang"]
Remove(t, L, I, key) ==
    IF t.root = INVALID_PAGE_ID THEN [t |-> t, res |-> "ok"]
    ELSE Remove_On(t, L, I, key, Descend(t.mem, I, t.root, key, <<>>, DescentFuel))

\* ------------------------------------------------- iterator, range scan
\* BPlusTreeIterator is modelled by (page_id_, index_in_leaf_)
End == [page_id |-> INVALID_PAGE_ID, index |-> 0]

Begin_On(d, index) ==
    IF d.st # "ok" THEN [st |-> d.st, it |-> End]
    ELSE [st |-> "ok", it |-> [page_id |-> Last(d.path), index |-> index]]

\* BPlusTree::Begin(): [st, it]
Begin(t, I) ==
    IF t.root = INVALID_PAGE_ID THEN [st |-> "ok", it |-> End]
    ELSE Begin_On(DescendLeft(t.mem, I, t.root, <<>>, DescentFuel), 0)

BeginAt_On(t, key, d) ==
    IF d.st # "ok" THEN [st |-> d.st, it |-> End]
    ELSE Begin_On(d, Find_Key_Index(Content(t.mem, Last(d.path)), key))

\* BPlusTree::Begin(key): [st, it]
BeginAt(t, I, key) ==
    IF t.root = INVALID_PAGE_ID THEN [st |-> "ok", it |-> End]
    ELSE BeginAt_On(t, key, Descend(t.mem, I, t.root, key, <<>>, DescentFuel))

\* BPlusTreeIterator::operator*
Deref(t, L, it) ==
    <<Leaf_Key(Content(t.mem, it.page_id), it.index),
      Leaf_Value_At(Content(t.mem, it.page_id), L, it.index)>>

Incr_In(it, p) ==
    IF it.index < Get_Size(p) - 1 THEN [it EXCEPT !.index = @ + 1]
    ELSE IF Get_Next_Page_Id(p) # INVALID_PAGE_ID
    THEN [page_id |-> Get_Next_Page_Id(p), index |-> 0]
    ELSE End

\* BPlusTreeIterator::operator++ when no other thread holds a latch (the
\* TryRLatch on the next leaf succeeds)
Incr(t, it) ==
    IF it.page_id = INVALID_PAGE_ID THEN it
    ELSE Incr_In(it, Content(t.mem, it.page_id))

\* steps after which a loop over the iterator is reported as not ending
IterFuel == 2 * MaxKey + 4

\* for (it = Begin(); it != End(); ++it) collect *it
RECURSIVE IterateFrom(_, _, _, _, _)
IterateFrom(t, L, it, acc, fuel) ==
    IF it = End THEN [st |-> "ok", out |-> acc]
    ELSE IF fuel = 0 THEN [st |-> "hang", out |-> acc]
    ELSE IterateFrom(t, L, Incr(t, it), Append(acc, Deref(t, L, it)), fuel - 1)

Iterate_On(t, L, b) ==
    IF b.st # "ok" THEN [st |-> b.st, out |-> <<>>]
    ELSE IterateFrom(t, L, b.it, <<>>, IterFuel)

Iterate(t, L, I) == Iterate_On(t, L, Begin(t, I))

\* the loop of BPlusTree::Range_Scan
RECURSIVE ScanFrom(_, _, _, _, _, _)
Scan_Step(t, L, it, end_key, acc, fuel, pair) ==
    IF Less(pair[1], end_key)
    THEN ScanFrom(t, L, Incr(t, it), end_key, Append(acc, pair), fuel - 1)
    ELSE [st |-> "ok", out |-> acc]

ScanFrom(t, L, it, end_key, acc, fuel) ==
    IF it = End THEN [st |-> "ok", out |-> acc]
    ELSE IF fuel = 0 THEN [st |-> "hang", out |-> acc]
    ELSE Scan_Step(t, L, it, end_key, acc, fuel, Deref(t, L, it))

Range_Scan_On(t, L, end_key, b) ==
    IF b.st # "ok" THEN [st |-> b.st, out |-> <<>>]
    ELSE ScanFrom(t, L, b.it, end_key, <<>>, IterFuel)

Range_Scan(t, L, I, start_key, end_key) ==
    Range_Scan_On(t, L, end_key, BeginAt(t, I, start_key))

\* number of nodes on the path from the root to the leftmost leaf
Height(t, I) ==
    IF t.root = INVALID_PAGE_ID THEN 0
    ELSE Len(DescendLeft(t.mem, I, t.root, <<>>, DescentFuel).path)

\* ------------------------------------------------------------------ state
VARIABLES
    leaf_max_size_,      \* BPlusTree::leaf_max_size_
    internal_max_size_,  \* BPlusTree::internal_max_size_
    tree,                \* pages, file, dirty flags, root_page_id_, next_page_id_
    store,               \* key -> value the calls so far have stored (0: none)
    fresh,               \* keys whose latest call was an Insert that returned true
    last,                \* the call that ran last and how it ended
    status,              \* "ok", "closed", or "fatal" once a call threw or hung
    script,              \* the workload the client runs first
    pos,                 \* number of calls of the workload already made
    calls,               \* number of calls made after the workload
    restarts,            \* number of times the tree was closed
    threads,             \* the client threads: their call, position and locals
    root_latch_,         \* BPlusTree::root_latch_: <<thread, mode>> of each holder
    latches,             \* Page::rwlatch_: <<page id, thread, mode>> of each holder
    bpm,                 \* BufferPoolManager: frames, page_table_, free_list_, LRU list
    audit                \* the last call on the buffer pool and the bytes its clients rely on

seqvars == <<store, fresh, last, status, script, pos, calls, restarts>>
convars == <<threads, root_latch_, latches, bpm, audit>>
vars == <<leaf_max_size_, internal_max_size_, tree, seqvars, convars>>

LeafSizes == 3..MaxLeafSize
InternalSizes == 3..MaxInternalSize

\* a tree opened on a new file: BPlusTree(file) reads page 0 (zero bytes,
\* so root_page_id_ = INVALID_PAGE_ID); the file is empty, next_page_id_ = 0
EmptyTree ==
    [mem |-> [p \in PageIds |-> ZeroPage],
     disk |-> [p \in PageIds |-> ZeroPage],
     flen |-> 0,
     dirty |-> {},
     root |-> INVALID_PAGE_ID,
     next |-> 0]

\* the sequential runs leave the pool to the write-back cache of tree.mem
NoPool == [pages_ |-> <<>>, page_table_ |-> <<>>, free_list_ |-> <<>>, lru_list_ |-> <<>>]

\* no call on the buffer pool is followed
NoAudit == [op |-> "none"]

NoCall == [op |-> "none", key |-> 0, val |-> 0, res |-> "none", had |-> FALSE]

Ins(k) == [op |-> "Insert", key |-> k]
Rem(k) == [op |-> "Remove", key |-> k]

\* Workloads in the style of the persistence test: a batch of inserts in
\* some order, value = key * 10, followed by removals.
\* ScriptFill loads every second range first and fills a gap afterwards.
ScriptFill ==
    <<Ins(1), Ins(2), Ins(6), Ins(7), Ins(8), Ins(9), Ins(10), Ins(11),
      Ins(12), Ins(13), Ins(14), Ins(3), Ins(4), Ins(5), Rem(5), Rem(1)>>

\* ascending load of all keys, then removal from the largest key down
ScriptUpDown ==
    [i \in 1..(2 * MaxKey) |-> IF i <= MaxKey THEN Ins(i) ELSE Rem(2 * MaxKey + 1 - i)]

\* descending load of all keys, then removal from the smallest key up
ScriptDownUp ==
    [i \in 1..(2 * MaxKey) |-> IF i <= MaxKey THEN Ins(MaxKey + 1 - i) ELSE Rem(i - MaxKey)]

\* removals between the inserts: a removal that merges pages is followed
\* by inserts that split them again
ScriptChurn ==
    <<Ins(1), Ins(2), Ins(6), Ins(7), Ins(8), Ins(9), Ins(10), Rem(1),
      Ins(11), Ins(12), Rem(6), Ins(13)>>

Scripts == {ScriptFill, ScriptUpDown, ScriptDownUp, ScriptChurn}

ScriptValue(key) == key * 10

Init ==
    /\ leaf_max_size_ \in LeafSizes
    /\ internal_max_size_ \in InternalSizes
    /\ tree = EmptyTree
    /\ store = [k \in Keys |-> 0]
    /\ fresh = {}
    /\ last = NoCall
    /\ status = "ok"
    /\ script \in Scripts
    /\ pos = 0
    /\ calls = 0
    /\ restarts = 0
    /\ threads = <<>>
    /\ root_latch_ = {}
    /\ latches = {}
    /\ bpm = NoPool
    /\ audit = NoAudit

Ended(res) == IF res \in {"throw", "hang"} THEN "fatal" ELSE "ok"

\* the effect on the state of a tree.Insert(key, value, &txn) that ends as r
Insert_Returns(key, value, r) ==
    /\ status = "ok"
    /\ r.t.next <= MaxPageId + 1
    /\ tree' = r.t
    /\ store' = IF r.res = "true" THEN [store EXCEPT ![key] = value] ELSE store
    /\ fresh' = IF r.res = "true" THEN fresh \cup {key} ELSE fresh \ {key}
    /\ last' = [op |-> "Insert", key |-> key, val |-> value, res |-> r.res, had |-> store[key] # 0]
    /\ status' = Ended(r.res)
    /\ UNCHANGED <<leaf_max_size_, internal_max_size_, script, restarts, convars>>

CallInsert(key, value) ==
    Insert_Returns(key, value, Insert(tree, leaf_max_size_, internal_max_size_, key, value))

\* the effect on the state of a tree.Remove(key, &txn) that ends as r
Remove_Returns(key, r) ==
    /\ status = "ok"
    /\ tree' = r.t
    /\ store' = IF r.res = "ok" THEN [store EXCEPT ![key] = 0] ELSE store
    /\ fresh' = fresh \ {key}
    /\ last' = [op |-> "Remove", key |-> key, val |-> 0, res |-> r.res, had |-> store[key] # 0]
    /\ status' = Ended(r.res)
    /\ UNCHANGED <<leaf_max_size_, internal_max_size_, script, restarts, convars>>

CallRemove(key) ==
    Remove_Returns(key, Remove(tree, leaf_max_size_, internal_max_size_, key))

\* the next call of the workload (the workload runs on the first open of
\* the file and ends with the first call made outside of it)
ScriptedCall ==
    /\ calls = 0
    /\ restarts = 0
    /\ pos < Len(script)
    /\ LET c == script[pos + 1]
       IN IF c.op = "Insert" THEN CallInsert(c.key, ScriptValue(c.key))
          ELSE CallRemove(c.key)
    /\ pos' = pos + 1
    /\ UNCHANGED calls

\* tree.Insert(key, value, &txn) with any key and value
DoInsert(key, value) ==
    /\ calls < MaxCalls
    /\ CallInsert(key, value)
    /\ calls' = calls + 1
    /\ UNCHANGED pos

\* tree.Remove(key, &txn) with any key
DoRemove(key) ==
    /\ calls < MaxCalls
    /\ CallRemove(key)
    /\ calls' = calls + 1
    /\ UNCHANGED pos

Next ==
    \/ ScriptedCall
    \/ \E key \in Keys, value \in Vals : DoInsert(key, value)
    \/ \E key \in Keys : DoRemove(key)

Spec == Init /\ [][Next]_vars

\* ---------------------------------------------- calls on an exhausted pool
\* Other clients of the pool (live iterators, other threads) may hold every
\* frame the call does not hold itself at the moment the call asks for a
\* page that is not resident: FetchPage then returns nullptr.  audit.at names
\* the request that met the exhausted pool.

\* Handle_Underflow saw nullptr for the siblings FetchPage could not load
Starved_Siblings(c, left_null, right_null) ==
    [c EXCEPT !.has_left = @ /\ ~left_null, !.has_right = @ /\ ~right_null]

\* no sibling fetch was made, or none failed
Not_Starved(t) == [out |-> [t |-> t, res |-> "ok"], starved |-> FALSE]

Starved_With(h, L, I, ps, c, left_null, right_null) ==
    [out |-> Remove_Done(Underflow_With(h, L, I, ps,
                                        Starved_Siblings(c, left_null, right_null))),
     starved |-> (c.has_left /\ left_null) \/ (c.has_right /\ right_null)]

Starved_In_Parent(h, L, I, ps, par_idx, index_in_parent, left_null, right_null) ==
    IF index_in_parent = 0 - 1 THEN Not_Starved(h.t)
    ELSE Starved_With(h, L, I, ps,
                      Siblings(h.t, I, Last(ps), ps[par_idx], par_idx, index_in_parent,
                               Content(h.t.mem, ps[par_idx])),
                      left_null, right_null)

Starved_Under(h, L, I, ps, par_idx, left_null, right_null) ==
    IF par_idx = 0 THEN Not_Starved(h.t)
    ELSE Starved_In_Parent(h, L, I, ps, par_idx,
                           Find_Child_Index(Content(h.t.mem, ps[par_idx]), I, Last(ps)),
                           left_null, right_null)

Starved_From_Leaf(t, L, I, ps, lp, lp1, left_null, right_null) ==
    IF Get_Size(lp1) < Get_Size(lp) /\ Is_Underflow(lp1, L) /\ Last(ps) # t.root
    THEN Starved_Under(Leaf_Removed(t, ps, lp1), L, I, ps, ParentIdx(ps, Len(ps) - 1),
                       left_null, right_null)
    ELSE Not_Starved(t)

Starved_On(t, L, I, key, d, left_null, right_null) ==
    IF d.st # "ok" THEN Not_Starved(t)
    ELSE Starved_From_Leaf(t, L, I, Page_Set(t, L, I, d.path), Content(t.mem, Last(d.path)),
                           Leaf_Remove(Content(t.mem, Last(d.path)), L, key),
                           left_null, right_null)

\* BPlusTree::Remove when the FetchPage of the left sibling (left_null) or of
\* the right sibling (right_null) in Handle_Underflow returns nullptr:
\* [out |-> [t, res], starved |-> such a FetchPage was made]
Remove_Starved(t, L, I, key, left_null, right_null) ==
    IF t.root = INVALID_PAGE_ID THEN Not_Starved(t)
    ELSE Starved_On(t, L, I, key, Descend(t.mem, I, t.root, key, <<>>, DescentFuel),
                    left_null, right_null)

\* the effect on the state of a call op(key) that met the exhausted pool at
\* the request `at` and ended as r
Starved_Returns(op, key, r, at) ==
    /\ status = "ok"
    /\ calls < MaxCalls
    /\ tree' = r.t
    /\ last' = [op |-> op, key |-> key, val |-> 0, res |-> r.res, had |-> store[key] # 0]
    /\ status' = Ended(r.res)
    /\ audit' = [op |-> "exhausted", at |-> at]
    /\ calls' = calls + 1
    /\ fresh' = fresh \ {key}
    /\ UNCHANGED <<leaf_max_size_, internal_max_size_, store, script, pos, restarts,
                   threads, root_latch_, latches, bpm>>

\* Insert, Remove or Get_Value on a tree that is not empty, when a FetchPage
\* of Get_Leaf_Page returns nullptr: Get_Leaf_Page throws
StarvedDescent(op, key) ==
    /\ tree.root # INVALID_PAGE_ID
    /\ Starved_Returns(op, key, [t |-> tree, res |-> "throw"], "Get_Leaf_Page")

\* Remove(key) when a FetchPage of a sibling in Handle_Underflow returns
\* nullptr
StarvedSiblings(key, left_null, right_null) ==
    /\ Remove_Starved(tree, leaf_max_size_, internal_max_size_, key,
                      left_null, right_null).starved
    /\ Starved_Returns("Remove", key,
                       Remove_Starved(tree, leaf_max_size_, internal_max_size_, key,
                                      left_null, right_null).out,
                       "Handle_Underflow")

NextStarved ==
    \/ Next
    \/ \E op \in {"Insert", "Remove", "Get_Value"}, key \in Keys : StarvedDescent(op, key)
    \/ \E key \in Keys, left_null, right_null \in BOOLEAN :
            StarvedSiblings(key, left_null, right_null)

SpecStarved == Init /\ [][NextStarved]_vars

\* -------------------------------------------- calls without a transaction
\* BPlusTree::Insert with transaction == nullptr (the default argument): an
\* empty tree gets its root, on any other tree the call throws
Insert_Null(t, L, key, value) ==
    IF t.root = INVALID_PAGE_ID
    THEN [t |-> Start_New_Tree(t, L, key, value), res |-> "true"]
    ELSE [t |-> t, res |-> "throw"]

\* BPlusTree::Remove with transaction == nullptr: returns on an empty tree
\* and throws on any other
Remove_Null(t) ==
    IF t.root = INVALID_PAGE_ID THEN [t |-> t, res |-> "ok"]
    ELSE [t |-> t, res |-> "throw"]

\* tree.Insert(key, value)
DoInsertNull(key, value) ==
    /\ calls < MaxCalls
    /\ Insert_Returns(key, value, Insert_Null(tree, leaf_max_size_, key, value))
    /\ calls' = calls + 1
    /\ UNCHANGED pos

\* tree.Remove(key)
DoRemoveNull(key) ==
    /\ calls < MaxCalls
    /\ Remove_Returns(key, Remove_Null(tree))
    /\ calls' = calls + 1
    /\ UNCHANGED pos

\* the calls of the workload are made with a transaction, the calls after
\* it without one
NextNull ==
    \/ ScriptedCall
    \/ \E key \in Keys, value \in Vals : DoInsertNull(key, value)
    \/ \E key \in Keys : DoRemoveNull(key)

SpecNull == Init /\ [][NextNull]_vars

\* root_page_id_ as the constructor reads it from the meta page
ReadMeta(t) == IF W(t.disk[0], 0) = 0 THEN INVALID_PAGE_ID ELSE W(t.disk[0], 0)

\* ~BPlusTree(): the tree a destructor leaves, and the tree BPlusTree(file,
\* L, I) starts with on that file
Closed(t) == WriteMeta(FlushAllPages(t, t.dirty))
Opened(t) == [t EXCEPT !.mem = t.disk, !.dirty = {}, !.next = t.flen, !.root = ReadMeta(t)]

\* ~BPlusTree(): FlushAllPages, then the root page id is written into the
\* meta page, which is flushed
Close ==
    /\ status = "ok"
    /\ restarts < MaxRestarts
    /\ tree' = Closed(tree)
    /\ last' = [op |-> "Close", key |-> 0, val |-> 0, res |-> "ok", had |-> FALSE]
    /\ status' = "closed"
    /\ restarts' = restarts + 1
    /\ UNCHANGED <<leaf_max_size_, internal_max_size_, store, fresh, script, pos, calls, convars>>

\* BPlusTree(file, L, I) on the file a closed tree left: an empty buffer
\* pool, next_page_id_ from the file size, root_page_id_ from the meta page
Reopen ==
    /\ status = "closed"
    /\ tree' = Opened(tree)
    /\ last' = [op |-> "Reopen", key |-> 0, val |-> 0, res |-> "ok", had |-> FALSE]
    /\ status' = "ok"
    /\ UNCHANGED <<leaf_max_size_, internal_max_size_, store, fresh, script, pos, calls, restarts, convars>>

NextPersist ==
    \/ Next
    \/ Close
    \/ Reopen

SpecPersist == Init /\ [][NextPersist]_vars

\* ----------------------------------------------------- concurrent writers
\* Threads that call Insert and Remove on one tree, each with its own
\* Transaction (ConcurrentInsertAndDelete).  A step of a thread runs from
\* one blocking acquisition of a latch to the next; FetchPage always finds a
\* frame here (two writers pin fewer pages than the pool holds).
Writers == 1..NumWriters

\* the value thread t inserts with key
WriterValue(t, key) == ScriptValue(key) + t

\* std::shared_mutex: lock() waits for every holder, lock_shared() for an
\* exclusive one
RootFree == root_latch_ = {}
RootShareable == \A h \in root_latch_ : h[2] # "X"
PageFree(pid) == \A h \in latches : h[1] # pid
PageShareable(pid) == \A h \in latches : h[1] = pid => h[3] # "W"

\* a thread between two calls, with the calls it has still to make and the
\* results of those it made
Idle(prog, out) ==
    [pc |-> "idle", prog |-> prog, out |-> out, op |-> "none", key |-> 0, val |-> 0,
     ps |-> <<>>, child |-> INVALID_PAGE_ID, prev |-> INVALID_PAGE_ID,
     first_round |-> TRUE, retry |-> FALSE]

\* the call of thread th returns res
Returns(th, res) ==
    Idle(Tail(th.prog), Append(th.out, [op |-> th.op, key |-> th.key, res |-> res]))

\* the call of thread th throws: nothing on the way out releases what the
\* thread holds
Throws(th) ==
    [th EXCEPT !.pc = "dead",
               !.out = Append(@, [op |-> th.op, key |-> th.key, res |-> "throw"])]

\* the entries of a page set that are pages
NonNull(ps) == SelectSeq(ps, LAMBDA p : p # NullPtr)

\* Release_W_Latches for thread t
Released_Pages(t) == {h \in latches : h[2] # t}
Released_Root(t) == {h \in root_latch_ : h[1] # t}

\* what the writers leave alone
writerconst == <<leaf_max_size_, internal_max_size_, store, fresh, last, status,
                 script, pos, calls, restarts, bpm, audit>>

\* Insert 271-285 / Remove 519-523: root_latch_.lock_shared() and Is_Empty()
Call_As(t, c) ==
    IF tree.root # INVALID_PAGE_ID
    THEN /\ root_latch_' = root_latch_ \cup {<<t, "S">>}
         /\ threads' = [threads EXCEPT ![t] =
                [@ EXCEPT !.pc = "descend", !.op = c.op, !.key = c.key,
                          !.val = WriterValue(t, c.key), !.child = tree.root]]
    ELSE /\ root_latch_' = root_latch_
         /\ threads' = [threads EXCEPT ![t] =
                IF c.op = "Insert"
                THEN [@ EXCEPT !.pc = "upgrade", !.op = c.op, !.key = c.key,
                               !.val = WriterValue(t, c.key)]
                ELSE Returns([@ EXCEPT !.op = c.op, !.key = c.key], "ok")]

Call(t) ==
    /\ threads[t].pc = "idle"
    /\ threads[t].prog # <<>>
    /\ RootShareable
    /\ Call_As(t, Head(threads[t].prog))
    /\ UNCHANGED <<tree, latches, writerconst>>

\* Insert 275-283: root_latch_.lock(), Start_New_Tree if the tree is still
\* empty, root_latch_.unlock()
Upgrade(t) ==
    /\ threads[t].pc = "upgrade"
    /\ RootFree
    /\ IF tree.root = INVALID_PAGE_ID
       THEN /\ tree' = Start_New_Tree(tree, leaf_max_size_, threads[t].key, threads[t].val)
            /\ threads' = [threads EXCEPT ![t] = Returns(@, "true")]
       ELSE /\ tree' = tree
            /\ threads' = [threads EXCEPT ![t].pc = "relock"]
    /\ UNCHANGED <<root_latch_, latches, writerconst>>

\* Insert 284: root_latch_.lock_shared() again; Is_Empty() is not asked again
Relock(t) ==
    /\ threads[t].pc = "relock"
    /\ RootShareable
    /\ root_latch_' = root_latch_ \cup {<<t, "S">>}
    /\ threads' = [threads EXCEPT ![t].pc = "descend", ![t].child = tree.root]
    /\ UNCHANGED <<tree, latches, writerconst>>

\* Get_Leaf_Page 831-839 with first_round = false
LockRoot(t) ==
    /\ threads[t].pc = "lockroot"
    /\ RootFree
    /\ root_latch_' = {<<t, "X">>}
    /\ threads' = [threads EXCEPT ![t].pc = "descend", ![t].first_round = FALSE,
                                  ![t].ps = <<NullPtr>>, ![t].child = tree.root,
                                  ![t].prev = INVALID_PAGE_ID]
    /\ UNCHANGED <<tree, latches, writerconst>>

\* thread t lets go of the page it came from: prev->RUnlatch(), or
\* root_latch_.unlock_shared() above the root (Get_Leaf_Page 874-880)
Prev_Released(t, th) == latches \ {<<th.prev, t, "R">>}
Root_After_Prev(t, th) == IF th.prev = INVALID_PAGE_ID THEN Released_Root(t) ELSE root_latch_

\* one turn of the loop of Get_Leaf_Page in the first round, on page `page`
\* with the bytes pd; down is the child Lookup names in an internal page
First_Round_Step(t, th, page, pd, down) ==
    IF Is_Leaf(pd)
    THEN /\ PageFree(page)
         /\ root_latch_' = Root_After_Prev(t, th)
         /\ IF Is_Safe_Page(pd, TRUE, page = tree.root, th.op, leaf_max_size_, internal_max_size_)
            THEN /\ latches' = Prev_Released(t, th) \cup {<<page, t, "W">>}
                 /\ threads' = [threads EXCEPT ![t] = [th EXCEPT !.pc = "atleaf", !.ps = <<page>>]]
                 /\ tree' = tree
            ELSE /\ latches' = Prev_Released(t, th)
                 /\ threads' = [threads EXCEPT ![t] = [th EXCEPT !.pc = "lockroot", !.ps = <<>>]]
                 /\ tree' = MarkDirty(tree, {page})
    ELSE /\ PageShareable(page)
         /\ root_latch_' = Root_After_Prev(t, th)
         /\ tree' = tree
         /\ IF down = INVALID_PAGE_ID
            THEN /\ latches' = Prev_Released(t, th)
                 /\ threads' = [threads EXCEPT ![t] = Throws(th)]
            ELSE /\ latches' = Prev_Released(t, th) \cup {<<page, t, "R">>}
                 /\ threads' = [threads EXCEPT ![t] = [th EXCEPT !.child = down, !.prev = page]]

\* a second round that lets go of root_latch_ and of the pages above a page
\* that is safe for the operation
Second_Round_Step_Crabbing(t, th, page, pd, down) ==
    /\ PageFree(page)
    /\ root_latch_' = IF Is_Safe_Page(pd, Is_Leaf(pd), page = tree.root, th.op,
                                      leaf_max_size_, internal_max_size_)
                      THEN Released_Root(t) ELSE root_latch_
    /\ latches' = (IF Is_Safe_Page(pd, Is_Leaf(pd), page = tree.root, th.op,
                                   leaf_max_size_, internal_max_size_)
                   THEN Released_Pages(t) ELSE latches) \cup {<<page, t, "W">>}
    /\ tree' = tree
    /\ threads' = [threads EXCEPT ![t] =
                      [th EXCEPT !.pc = IF Is_Leaf(pd) THEN "atleaf" ELSE @,
                                 !.ps = IF Is_Safe_Page(pd, Is_Leaf(pd), page = tree.root, th.op,
                                                        leaf_max_size_, internal_max_size_)
                                        THEN <<page>> ELSE Append(@, page),
                                 !.child = IF Is_Leaf(pd) THEN @ ELSE down,
                                 !.prev = IF Is_Leaf(pd) THEN @ ELSE page]]

\* the same in the second round: every page of the path is write-latched
\* and kept in the page set
Second_Round_Step(t, th, page, pd, down) ==
    /\ PageFree(page)
    /\ root_latch_' = root_latch_
    /\ IF Is_Leaf(pd)
       THEN /\ latches' = latches \cup {<<page, t, "W">>}
            /\ threads' = [threads EXCEPT ![t] = [th EXCEPT !.pc = "atleaf", !.ps = Append(@, page)]]
            /\ tree' = tree
       ELSE IF down = INVALID_PAGE_ID
       THEN /\ latches' = latches
            /\ threads' = [threads EXCEPT ![t] = Throws([th EXCEPT !.ps = Append(@, page)])]
            /\ tree' = MarkDirty(tree, {page})
       ELSE /\ latches' = latches \cup {<<page, t, "W">>}
            /\ threads' = [threads EXCEPT ![t] = [th EXCEPT !.ps = Append(@, page), !.child = down,
                                                             !.prev = page]]
            /\ tree' = tree

Step_On(t, th, pd) ==
    IF th.first_round
    THEN First_Round_Step(t, th, th.child, pd, Lookup(pd, internal_max_size_, th.key))
    ELSE Second_Round_Step(t, th, th.child, pd, Lookup(pd, internal_max_size_, th.key))

\* Get_Leaf_Page 842-913: one turn of the loop
Step(t) ==
    /\ threads[t].pc = "descend"
    /\ IF threads[t].child = INVALID_PAGE_ID
       THEN /\ threads' = [threads EXCEPT ![t] = Throws(@)]
            /\ UNCHANGED <<tree, root_latch_, latches>>
       ELSE Step_On(t, threads[t], Content(tree.mem, threads[t].child))
    /\ UNCHANGED writerconst

\* the call of thread th ends as r = [t, res]; Release_W_Latches unpins the
\* page set as dirty
Insert_Ends(t, th, r) ==
    /\ r.t.next <= MaxPageId + 1
    /\ tree' = MarkDirty(r.t, SeqToSet(NonNull(th.ps)))
    /\ threads' = [threads EXCEPT ![t] = Returns(th, r.res)]
    /\ latches' = Released_Pages(t)
    /\ root_latch_' = Released_Root(t)

\* Insert 296-322 with the leaf lp latched: duplicate, plain insertion, or
\* Release_W_Latches before the second Get_Leaf_Page
Leaf_Insert_As(t, th, lp) ==
    IF ~Leaf_Get_Value(lp, leaf_max_size_, th.key)[1] /\ IS_Full(lp, leaf_max_size_)
    THEN /\ tree' = MarkDirty(tree, SeqToSet(NonNull(th.ps)))
         /\ threads' = [threads EXCEPT ![t] = [th EXCEPT !.pc = "lockroot", !.retry = TRUE, !.ps = <<>>]]
         /\ latches' = Released_Pages(t)
         /\ root_latch_' = Released_Root(t)
    ELSE Insert_Ends(t, th, Insert_At_Leaf(tree, leaf_max_size_, internal_max_size_,
                                           th.key, th.val, NonNull(th.ps), lp))

LeafInsert(t) ==
    /\ threads[t].pc = "atleaf"
    /\ threads[t].op = "Insert"
    /\ ~threads[t].retry
    /\ Leaf_Insert_As(t, threads[t], Content(tree.mem, Last(threads[t].ps)))
    /\ UNCHANGED writerconst

\* Insert 323-416 on the path the second Get_Leaf_Page latched: the leaf is
\* split and the pair inserted without another look at the leaf
SplitLeaf(t) ==
    /\ threads[t].pc = "atleaf"
    /\ threads[t].op = "Insert"
    /\ threads[t].retry
    /\ Insert_Ends(t, threads[t],
                   [t |-> SplitInsert(tree, leaf_max_size_, internal_max_size_,
                                      NonNull(threads[t].ps), threads[t].key, threads[t].val),
                    res |-> "true"])
    /\ UNCHANGED writerconst

\* the pages Handle_Underflow may latch as siblings: the children of the
\* internal pages in the page set
Sibling_Candidates(ps) ==
    {Child_At(Content(tree.mem, ps[i]), internal_max_size_, j) :
        i \in {n \in 1..(Len(ps) - 1) : ps[n] # NullPtr}, j \in 0..MaxInternalSize}

Remove_Ends(t, th, r) ==
    /\ tree' = r.t
    /\ IF r.res = "ok"
       THEN /\ threads' = [threads EXCEPT ![t] = Returns(th, "ok")]
            /\ latches' = Released_Pages(t)
            /\ root_latch_' = Released_Root(t)
       ELSE /\ threads' = [threads EXCEPT ![t] = Throws(th)]
            /\ UNCHANGED <<latches, root_latch_>>

\* Remove 532-551 with the leaf latched; the WLatch of a sibling in
\* Handle_Underflow waits for the threads that hold it
LeafRemove(t) ==
    /\ threads[t].pc = "atleaf"
    /\ threads[t].op = "Remove"
    /\ \A h \in latches : h[2] # t => h[1] \notin Sibling_Candidates(threads[t].ps)
    /\ Remove_Ends(t, threads[t],
                   Remove_At_Leaf(tree, leaf_max_size_, internal_max_size_, threads[t].key,
                                  threads[t].ps, Content(tree.mem, Last(threads[t].ps))))
    /\ UNCHANGED writerconst

\* the tree after Insert(k, k * 10) for k = from .. to, one call after the
\* other
RECURSIVE Loaded(_, _, _, _, _)
Loaded(t, L, I, from, to) ==
    IF from > to THEN t
    ELSE Loaded(Insert(t, L, I, from, ScriptValue(from)).t, L, I, from + 1, to)

\* the keys 1 .. load are stored before the threads start: none, a full
\* root leaf, or a root with several leaves below
Loads(L) == {0, L, 2 * L + 1}

\* thread 1 inserts the first key not stored; the other threads insert that
\* key too, insert the key after it, or remove the stored keys in ascending
\* order
RestProgs(load) ==
    {<<Ins(load + 1)>>, <<Ins(load + 2)>>, [i \in 1..load |-> Rem(i)]}

InitWriters ==
    /\ leaf_max_size_ \in LeafSizes
    /\ internal_max_size_ \in InternalSizes
    /\ \E load \in Loads(leaf_max_size_) : \E rest \in RestProgs(load) :
          /\ tree = Loaded(EmptyTree, leaf_max_size_, internal_max_size_, 1, load)
          /\ store = [k \in Keys |-> IF k <= load THEN ScriptValue(k) ELSE 0]
          /\ script = <<<<Ins(load + 1)>>, rest>>
          /\ threads = [t \in Writers |-> Idle(IF t = 1 THEN <<Ins(load + 1)>> ELSE rest, <<>>)]
    /\ fresh = {}
    /\ last = NoCall
    /\ status = "ok"
    /\ pos = 0
    /\ calls = 0
    /\ restarts = 0
    /\ root_latch_ = {}
    /\ latches = {}
    /\ bpm = NoPool
    /\ audit = NoAudit

NextWriters ==
    \E t \in Writers :
        \/ Call(t)
        \/ Upgrade(t)
        \/ Relock(t)
        \/ LockRoot(t)
        \/ Step(t)
        \/ LeafInsert(t)
        \/ SplitLeaf(t)
        \/ LeafRemove(t)

SpecWriters == InitWriters /\ [][NextWriters]_vars

\* ----------------------------------------------------- concurrent readers
\* ConcurrentReadTest: threads that call Get_Value on a tree nobody writes.
\* The buffer pool is modelled frame by frame; the bytes a frame holds are
\* those of tree.mem (no page is dirty, so file and frames agree).
Readers == 1..num_threads
Frames == 0..(POOL_SIZE - 1)
NoFrame == 0 - 1

\* Page::ResetMemory: a frame that holds no page.  The model keeps one word
\* of the bytes of a frame
ResetFrame == [page_id |-> INVALID_PAGE_ID, pin_count |-> 0, is_dirty |-> FALSE, data |-> 0]

\* BufferPoolManager::BufferPoolManager: every frame on the free list; disk
\* is the file of the DiskManager (a page never written reads as zero) and
\* next_page_id_ its allocation counter
PoolOf(pool_size) ==
    [pages_ |-> [f \in 0..(pool_size - 1) |-> ResetFrame],
     page_table_ |-> [p \in PageIds |-> NoFrame],
     free_list_ |-> [i \in 1..pool_size |-> i - 1],
     lru_list_ |-> <<>>,
     disk |-> [p \in PageIds |-> 0],
     next_page_id_ |-> 0]

NewPool == PoolOf(POOL_SIZE)

\* a Pin that leaves the frame in the replacer
Pin_Skipped(lru_list, frame_id) == lru_list

\* LRUReplacer::Pin and LRUReplacer::Unpin on lru_list_ (front first)
Pin(lru_list, frame_id) == SelectSeq(lru_list, LAMBDA f : f # frame_id)
Unpin(lru_list, frame_id) ==
    IF frame_id \in SeqToSet(lru_list) THEN lru_list ELSE <<frame_id>> \o lru_list

\* a FetchPage that gives up without asking the replacer
Fetch_Fails_No_Victim(b, page_id) ==
    b.page_table_[page_id] = NoFrame /\ b.free_list_ = <<>>

\* FetchPage returns nullptr: the page is not resident, no frame is free
\* and LRUReplacer::Victim finds none
Fetch_Fails(b, page_id) ==
    b.page_table_[page_id] = NoFrame /\ b.free_list_ = <<>> /\ b.lru_list_ = <<>>

\* the file after the page of the victim frame_id was written back, which
\* happens if the frame is dirty
Written_Back(b, frame_id) ==
    IF b.pages_[frame_id].is_dirty
    THEN [b.disk EXCEPT ![b.pages_[frame_id].page_id] = b.pages_[frame_id].data]
    ELSE b.disk

\* the page is read into frame_id, which held the page `old`
Fetch_Into(b, page_id, frame_id, free_list, lru_list, old, disk) ==
    [pages_ |-> [b.pages_ EXCEPT ![frame_id] =
                    [page_id |-> page_id, pin_count |-> 1, is_dirty |-> FALSE,
                     data |-> disk[page_id]]],
     page_table_ |-> [p \in PageIds |-> IF p = page_id THEN frame_id
                                        ELSE IF p = old THEN NoFrame
                                        ELSE b.page_table_[p]],
     free_list_ |-> free_list,
     lru_list_ |-> lru_list,
     disk |-> disk,
     next_page_id_ |-> b.next_page_id_]

\* BufferPoolManager::FetchPage: the pool after the call
FetchPage(b, page_id) ==
    IF b.page_table_[page_id] # NoFrame
    THEN [b EXCEPT !.pages_[b.page_table_[page_id]].pin_count = @ + 1,
                   !.lru_list_ = Pin(@, b.page_table_[page_id])]
    ELSE IF b.free_list_ # <<>>
    THEN Fetch_Into(b, page_id, Head(b.free_list_), Tail(b.free_list_), b.lru_list_,
                    INVALID_PAGE_ID, b.disk)
    ELSE IF b.lru_list_ = <<>> THEN b
    ELSE Fetch_Into(b, page_id, Last(b.lru_list_), b.free_list_,
                    SubSeq(b.lru_list_, 1, Len(b.lru_list_) - 1),
                    b.pages_[Last(b.lru_list_)].page_id,
                    Written_Back(b, Last(b.lru_list_)))

\* an UnpinPage that stores the caller's flag over the frame's flag
UnpinPage_Clearing(b, page_id, is_dirty) ==
    IF b.page_table_[page_id] = NoFrame THEN b
    ELSE IF b.pages_[b.page_table_[page_id]].pin_count <= 0 THEN b
    ELSE [b EXCEPT !.pages_[b.page_table_[page_id]].pin_count = @ - 1,
                   !.pages_[b.page_table_[page_id]].is_dirty = is_dirty,
                   !.lru_list_ = IF b.pages_[b.page_table_[page_id]].pin_count = 1
                                 THEN Unpin(@, b.page_table_[page_id]) ELSE @]

\* an UnpinPage that hands the frame to the replacer at every call
UnpinPage_Eager(b, page_id, is_dirty) ==
    IF b.page_table_[page_id] = NoFrame THEN b
    ELSE IF b.pages_[b.page_table_[page_id]].pin_count <= 0 THEN b
    ELSE [b EXCEPT !.pages_[b.page_table_[page_id]].pin_count = @ - 1,
                   !.pages_[b.page_table_[page_id]].is_dirty = @ \/ is_dirty,
                   !.lru_list_ = Unpin(@, b.page_table_[page_id])]

\* BufferPoolManager::UnpinPage(page_id, is_dirty): the pool after the call
UnpinPage(b, page_id, is_dirty) ==
    IF b.page_table_[page_id] = NoFrame THEN b
    ELSE IF b.pages_[b.page_table_[page_id]].pin_count <= 0 THEN b
    ELSE [b EXCEPT !.pages_[b.page_table_[page_id]].pin_count = @ - 1,
                   !.pages_[b.page_table_[page_id]].is_dirty = @ \/ is_dirty,
                   !.lru_list_ = IF b.pages_[b.page_table_[page_id]].pin_count = 1
                                 THEN Unpin(@, b.page_table_[page_id]) ELSE @]

\* the pool BPlusTree(file, L, I) starts with: the meta page was fetched and
\* unpinned
OpenedPool == UnpinPage(FetchPage(NewPool, 0), 0, FALSE)

\* thread t looks up the key ReaderKey(t, shift); shift moves the keys of
\* the threads towards the keys that are not stored
KeyShifts == {0, ReaderLoad - num_threads + 2}
ReaderKey(t, shift) == t + shift

\* what the readers leave alone
readerconst == <<leaf_max_size_, internal_max_size_, tree, store, fresh, last,
                 script, pos, calls, restarts, audit>>

\* the scheduling the model follows, a subset of the interleavings of the
\* threads: a thread that has let go of the page it came from runs on until
\* its next FetchPage has returned, and thread t + 1 never has taken as many
\* steps as thread t
MayStep(t) ==
    /\ status = "ok"
    /\ \A u \in Readers \ {t} : threads[u].pc # "fetch"
    /\ IF t = 1 THEN TRUE ELSE threads[t].steps < threads[t - 1].steps

InitReaders ==
    /\ leaf_max_size_ \in LeafSizes
    /\ internal_max_size_ \in InternalSizes
    /\ tree = Opened(Closed(Loaded(EmptyTree, leaf_max_size_, internal_max_size_, 1, ReaderLoad)))
    /\ store = [k \in Keys |-> IF k <= ReaderLoad THEN ScriptValue(k) ELSE 0]
    /\ \E shift \in KeyShifts :
          threads = [t \in Readers |->
                        [pc |-> "start", key |-> ReaderKey(t, shift), child |-> INVALID_PAGE_ID,
                         prev |-> INVALID_PAGE_ID, page |-> INVALID_PAGE_ID,
                         out |-> <<"none", 0>>, steps |-> 0]]
    /\ bpm = OpenedPool
    /\ audit = NoAudit
    /\ fresh = {}
    /\ last = NoCall
    /\ status = "ok"
    /\ script = <<>>
    /\ pos = 0
    /\ calls = 0
    /\ restarts = 0
    /\ root_latch_ = {}
    /\ latches = {}

\* thread th moves to pc
Moved(th, pc) == [th EXCEPT !.pc = pc, !.steps = @ + 1]

\* Get_Value 420-425: root_latch_.lock_shared() and Is_Empty()
ReaderCall(t) ==
    /\ MayStep(t)
    /\ threads[t].pc = "start"
    /\ RootShareable
    /\ IF tree.root = INVALID_PAGE_ID
       THEN /\ threads' = [threads EXCEPT ![t] = [Moved(@, "done") EXCEPT !.out = <<"false", 0>>]]
            /\ root_latch_' = root_latch_
       ELSE /\ threads' = [threads EXCEPT ![t] = [Moved(@, "fetch") EXCEPT !.child = tree.root]]
            /\ root_latch_' = root_latch_ \cup {<<t, "S">>}
    /\ UNCHANGED <<latches, bpm, status, readerconst>>

\* Get_Leaf_Page 843-871 in the first round of a Read: FetchPage(child) and
\* RLatch; an exception leaves the thread function and ends the program
ReaderFetch(t) ==
    /\ MayStep(t)
    /\ threads[t].pc = "fetch"
    /\ IF threads[t].child \notin PageIds \/ Fetch_Fails(bpm, threads[t].child)
       THEN /\ threads' = [threads EXCEPT ![t] = [Moved(@, "dead") EXCEPT !.out = <<"throw", 0>>]]
            /\ status' = "fatal"
            /\ UNCHANGED <<latches, bpm>>
       ELSE /\ PageShareable(threads[t].child)
            /\ threads' = [threads EXCEPT ![t] = [Moved(@, "release") EXCEPT !.page = threads[t].child]]
            /\ bpm' = FetchPage(bpm, threads[t].child)
            /\ latches' = latches \cup {<<threads[t].child, t, "R">>}
            /\ status' = status
    /\ UNCHANGED <<root_latch_, readerconst>>

\* the thread after it let go of prev: at the leaf, or on its way to the
\* child `down` that Lookup names
Reader_Goes_On(th, pd, down) ==
    IF Is_Leaf(pd) THEN Moved(th, "read")
    ELSE [Moved(th, "fetch") EXCEPT !.child = down, !.prev = th.page]

\* Get_Leaf_Page 874-880 and 889-912: the page the thread came from is
\* unlatched and unpinned (root_latch_.unlock_shared() above the root)
ReaderRelease(t) ==
    /\ MayStep(t)
    /\ threads[t].pc = "release"
    /\ IF threads[t].prev = INVALID_PAGE_ID
       THEN /\ root_latch_' = Released_Root(t)
            /\ UNCHANGED <<latches, bpm>>
       ELSE /\ root_latch_' = root_latch_
            /\ latches' = latches \ {<<threads[t].prev, t, "R">>}
            /\ bpm' = UnpinPage(bpm, threads[t].prev, FALSE)
    /\ threads' = [threads EXCEPT ![t] =
                      Reader_Goes_On(@, Content(tree.mem, threads[t].page),
                                     Lookup(Content(tree.mem, threads[t].page),
                                            internal_max_size_, threads[t].key))]
    /\ UNCHANGED <<status, readerconst>>

\* Get_Value 426-452: LeafNode::Get_Value, RUnlatch, UnpinPage(leaf, false)
ReaderRead(t) ==
    /\ MayStep(t)
    /\ threads[t].pc = "read"
    /\ threads' = [threads EXCEPT ![t] =
                      [Moved(@, "done") EXCEPT !.out =
                          Found(Leaf_Get_Value(Content(tree.mem, threads[t].page),
                                               leaf_max_size_, threads[t].key))]]
    /\ latches' = latches \ {<<threads[t].page, t, "R">>}
    /\ bpm' = UnpinPage(bpm, threads[t].page, FALSE)
    /\ UNCHANGED <<root_latch_, status, readerconst>>

NextReaders ==
    \E t \in Readers :
        \/ ReaderCall(t)
        \/ ReaderFetch(t)
        \/ ReaderRelease(t)
        \/ ReaderRead(t)

SpecReaders == InitReaders /\ [][NextReaders]_vars

\* ------------------------------------------------- the buffer pool alone
\* Clients that call FetchPage, NewPage, UnpinPage, DeletePage and FlushPage
\* in any order and write the bytes of frames they have pinned
\* (buffer_pool_manager_test.cpp).  Every call runs under latch_, so a call
\* is one step.
PoolPages == 0..MaxPoolPage
PoolData == 1..MaxData

\* NewPage returns nullptr: no frame is free and LRUReplacer::Victim finds
\* none
New_Fails(b) == b.free_list_ = <<>> /\ b.lru_list_ = <<>>

\* the new page next_page_id_ is set up in frame_id, which held the page
\* `old`
New_Into(b, frame_id, free_list, lru_list, old, disk) ==
    [pages_ |-> [b.pages_ EXCEPT ![frame_id] =
                    [page_id |-> b.next_page_id_, pin_count |-> 1, is_dirty |-> FALSE,
                     data |-> 0]],
     page_table_ |-> [p \in PageIds |-> IF p = b.next_page_id_ THEN frame_id
                                        ELSE IF p = old THEN NoFrame
                                        ELSE b.page_table_[p]],
     free_list_ |-> free_list,
     lru_list_ |-> lru_list,
     disk |-> disk,
     next_page_id_ |-> b.next_page_id_ + 1]

\* BufferPoolManager::NewPage: the pool after the call
NewPage(b) ==
    IF b.free_list_ # <<>>
    THEN New_Into(b, Head(b.free_list_), Tail(b.free_list_), b.lru_list_,
                  INVALID_PAGE_ID, b.disk)
    ELSE IF b.lru_list_ = <<>> THEN b
    ELSE New_Into(b, Last(b.lru_list_), b.free_list_,
                  SubSeq(b.lru_list_, 1, Len(b.lru_list_) - 1),
                  b.pages_[Last(b.lru_list_)].page_id,
                  Written_Back(b, Last(b.lru_list_)))

\* the frame FetchPage or NewPage takes from the replacer, if it takes one
Victim_Of(b, resident) ==
    IF resident \/ b.free_list_ # <<>> \/ b.lru_list_ = <<>> THEN NoFrame
    ELSE Last(b.lru_list_)

\* a DeletePage that leaves the frame in the replacer
Delete_From_Evictable(b, page_id, frame_id) ==
    [b EXCEPT !.page_table_[page_id] = NoFrame,
              !.pages_[frame_id] = ResetFrame,
              !.free_list_ = Append(@, frame_id)]

\* BufferPoolManager::DeletePage of a resident page that is not pinned
Delete_From(b, page_id, frame_id) ==
    [b EXCEPT !.page_table_[page_id] = NoFrame,
              !.lru_list_ = Pin(@, frame_id),
              !.pages_[frame_id] = ResetFrame,
              !.free_list_ = Append(@, frame_id)]

\* DeletePage returns false: the page is resident and pinned
Delete_Fails(b, page_id) ==
    b.page_table_[page_id] # NoFrame /\ b.pages_[b.page_table_[page_id]].pin_count > 0

\* BufferPoolManager::DeletePage: the pool after the call
Pool_DeletePage(b, page_id) ==
    IF b.page_table_[page_id] = NoFrame \/ Delete_Fails(b, page_id) THEN b
    ELSE Delete_From(b, page_id, b.page_table_[page_id])

\* BufferPoolManager::FlushPage: the pool after the call
Pool_FlushPage(b, page_id) ==
    IF b.page_table_[page_id] = NoFrame THEN b
    ELSE [b EXCEPT !.disk[page_id] = b.pages_[b.page_table_[page_id]].data,
                   !.pages_[b.page_table_[page_id]].is_dirty = FALSE]

\* UnpinPage returns true
Unpin_Succeeds(b, page_id) ==
    b.page_table_[page_id] # NoFrame /\ b.pages_[b.page_table_[page_id]].pin_count > 0

\* audit.know[p] is the word a FetchPage of page p has to return: the word
\* the page held when it was last unpinned as dirty, or 0 - 1 while the page
\* is new, deleted or written and not yet unpinned as dirty
NoDemand == 0 - 1

InitPool ==
    /\ leaf_max_size_ = 3
    /\ internal_max_size_ = 3
    /\ tree = EmptyTree
    /\ store = [k \in Keys |-> 0]
    /\ fresh = {}
    /\ last = NoCall
    /\ status = "ok"
    /\ script = <<>>
    /\ pos = 0
    /\ calls = 0
    /\ restarts = 0
    /\ threads = <<>>
    /\ root_latch_ = {}
    /\ latches = {}
    /\ bpm = PoolOf(PoolFrames)
    /\ audit = [op |-> "none", page_id |-> INVALID_PAGE_ID, res |-> "none",
                victim |-> NoFrame,
                know |-> [p \in PoolPages |-> NoDemand]]

poolconst == <<leaf_max_size_, internal_max_size_, tree, store, fresh, last, status,
               script, pos, restarts, threads, root_latch_, latches>>

\* one more call on the pool
PoolCall == calls < MaxPoolCalls /\ calls' = calls + 1

\* bpm_->FetchPage(page_id)
PoolFetch(page_id) ==
    /\ bpm.page_table_[page_id] # NoFrame => bpm.pages_[bpm.page_table_[page_id]].pin_count < MaxPins
    /\ bpm' = FetchPage(bpm, page_id)
    /\ audit' = [audit EXCEPT !.op = "FetchPage", !.page_id = page_id,
                              !.res = IF Fetch_Fails(bpm, page_id) THEN "null" ELSE "page",
                              !.victim = Victim_Of(bpm, bpm.page_table_[page_id] # NoFrame)]
    /\ PoolCall
    /\ UNCHANGED poolconst

\* bpm_->NewPage(&page_id)
PoolNew ==
    /\ bpm.next_page_id_ <= MaxPoolPage
    /\ bpm' = NewPage(bpm)
    /\ audit' = [audit EXCEPT !.op = "NewPage",
                              !.page_id = IF New_Fails(bpm) THEN INVALID_PAGE_ID
                                          ELSE bpm.next_page_id_,
                              !.res = IF New_Fails(bpm) THEN "null" ELSE "page",
                              !.victim = Victim_Of(bpm, FALSE),
                              !.know = IF New_Fails(bpm) THEN @
                                       ELSE [@ EXCEPT ![bpm.next_page_id_] = NoDemand]]
    /\ PoolCall
    /\ UNCHANGED poolconst

\* bpm_->UnpinPage(page_id, is_dirty)
PoolUnpin(page_id, is_dirty) ==
    /\ bpm' = UnpinPage(bpm, page_id, is_dirty)
    /\ audit' = [audit EXCEPT !.op = "UnpinPage", !.page_id = page_id,
                              !.res = IF Unpin_Succeeds(bpm, page_id) THEN "true" ELSE "false",
                              !.victim = NoFrame,
                              !.know = IF Unpin_Succeeds(bpm, page_id) /\ is_dirty
                                       THEN [@ EXCEPT ![page_id] =
                                                bpm.pages_[bpm.page_table_[page_id]].data]
                                       ELSE @]
    /\ PoolCall
    /\ UNCHANGED poolconst

\* bpm_->DeletePage(page_id)
PoolDelete(page_id) ==
    /\ bpm' = Pool_DeletePage(bpm, page_id)
    /\ audit' = [audit EXCEPT !.op = "DeletePage", !.page_id = page_id,
                              !.res = IF Delete_Fails(bpm, page_id) THEN "false" ELSE "true",
                              !.victim = IF Delete_Fails(bpm, page_id) THEN NoFrame
                                         ELSE bpm.page_table_[page_id],
                              !.know = IF Delete_Fails(bpm, page_id) THEN @
                                       ELSE [@ EXCEPT ![page_id] = NoDemand]]
    /\ PoolCall
    /\ UNCHANGED poolconst

\* bpm_->FlushPage(page_id)
PoolFlush(page_id) ==
    /\ bpm' = Pool_FlushPage(bpm, page_id)
    /\ audit' = [audit EXCEPT !.op = "FlushPage", !.page_id = page_id,
                              !.res = IF bpm.page_table_[page_id] = NoFrame THEN "false"
                                      ELSE "true",
                              !.victim = NoFrame]
    /\ PoolCall
    /\ UNCHANGED poolconst

\* a client writes the word v into the bytes of frame_id, which it has
\* pinned (page->GetData())
PoolWrite(frame_id, v) ==
    /\ bpm.pages_[frame_id].pin_count > 0
    /\ bpm.pages_[frame_id].data # v
    /\ bpm' = [bpm EXCEPT !.pages_[frame_id].data = v]
    /\ audit' = [audit EXCEPT !.op = "Write", !.page_id = bpm.pages_[frame_id].page_id,
                              !.res = "none", !.victim = NoFrame,
                              !.know[bpm.pages_[frame_id].page_id] = NoDemand]
    /\ PoolCall
    /\ UNCHANGED poolconst

NextPool ==
    \/ \E page_id \in PoolPages : PoolFetch(page_id)
    \/ PoolNew
    \/ \E page_id \in PoolPages, is_dirty \in BOOLEAN : PoolUnpin(page_id, is_dirty)
    \/ \E page_id \in PoolPages : PoolDelete(page_id)
    \/ \E page_id \in PoolPages : PoolFlush(page_id)
    \/ \E frame_id \in DOMAIN bpm.pages_, v \in PoolData : PoolWrite(frame_id, v)

SpecPool == InitPool /\ [][NextPool]_vars

\* ---------------------------------------------------- the replacer alone
\* A client that calls Unpin, Pin and Victim in any order (replacer_test.cpp).
\* Every call runs under latch_, so a call is one step.  audit.order is the
\* list a replacer keeps in which every Unpin makes its frame the most
\* recently used one: most recently used first.

\* LRUReplacer::Victim on lru_list_: whether a frame was found, the frame,
\* and the list afterwards
Victim(lru_list) ==
    IF lru_list = <<>> THEN [found |-> FALSE, frame_id |-> NoFrame, lru_list |-> lru_list]
    ELSE [found |-> TRUE, frame_id |-> Last(lru_list),
          lru_list |-> SubSeq(lru_list, 1, Len(lru_list) - 1)]

InitReplacer ==
    /\ leaf_max_size_ = 3
    /\ internal_max_size_ = 3
    /\ tree = EmptyTree
    /\ store = [k \in Keys |-> 0]
    /\ fresh = {}
    /\ last = NoCall
    /\ status = "ok"
    /\ script = <<>>
    /\ pos = 0
    /\ calls = 0
    /\ restarts = 0
    /\ threads = <<>>
    /\ root_latch_ = {}
    /\ latches = {}
    /\ bpm = PoolOf(ReplacerFrames)
    /\ audit = [op |-> "none", frame_id |-> NoFrame, found |-> FALSE, order |-> <<>>]

replacerconst == <<leaf_max_size_, internal_max_size_, tree, store, fresh, last, status,
                   script, pos, calls, restarts, threads, root_latch_, latches>>

\* replacer_->Unpin(frame_id)
ReplacerUnpin(frame_id) ==
    /\ bpm' = [bpm EXCEPT !.lru_list_ = Unpin(@, frame_id)]
    /\ audit' = [op |-> "Unpin", frame_id |-> frame_id, found |-> FALSE,
                 order |-> <<frame_id>> \o SelectSeq(audit.order, LAMBDA f : f # frame_id)]
    /\ UNCHANGED replacerconst

\* replacer_->Pin(frame_id)
ReplacerPin(frame_id) ==
    /\ bpm' = [bpm EXCEPT !.lru_list_ = Pin(@, frame_id)]
    /\ audit' = [op |-> "Pin", frame_id |-> frame_id, found |-> FALSE,
                 order |-> SelectSeq(audit.order, LAMBDA f : f # frame_id)]
    /\ UNCHANGED replacerconst

\* replacer_->Victim(&frame_id)
ReplacerVictim ==
    /\ bpm' = [bpm EXCEPT !.lru_list_ = Victim(@).lru_list]
    /\ audit' = [op |-> "Victim", frame_id |-> Victim(bpm.lru_list_).frame_id,
                 found |-> Victim(bpm.lru_list_).found,
                 order |-> SelectSeq(audit.order,
                                     LAMBDA f : f # Victim(bpm.lru_list_).frame_id)]
    /\ UNCHANGED replacerconst

NextReplacer ==
    \/ \E frame_id \in DOMAIN bpm.pages_ : ReplacerUnpin(frame_id)
    \/ \E frame_id \in DOMAIN bpm.pages_ : ReplacerPin(frame_id)
    \/ ReplacerVictim

SpecReplacer == InitReplacer /\ [][NextReplacer]_vars

\* ------------------------------------------------ the disk manager alone
\* A client that allocates page ids, writes pages, and closes and reopens the
\* file (disk_manager_test.cpp).  Here bpm holds the disk manager only:
\* next_page_id_ and the size of the file in pages.  audit.handed is the set
\* of page ids AllocatePage has returned since the file was created,
\* audit.session the ones returned since it was last opened.

\* DiskManager::DiskManager(db_file) on a file of file_size pages
DiskOf(file_size) == [next_page_id_ |-> file_size, file_size |-> file_size]

\* the size of the file after DiskManager::WritePage(page_id, -): the write
\* at offset page_id * PAGE_SIZE extends a shorter file
Size_After_Write(file_size, page_id) ==
    IF page_id + 1 > file_size THEN page_id + 1 ELSE file_size

InitDisk ==
    /\ leaf_max_size_ = 3
    /\ internal_max_size_ = 3
    /\ tree = EmptyTree
    /\ store = [k \in Keys |-> 0]
    /\ fresh = {}
    /\ last = NoCall
    /\ status = "ok"
    /\ script = <<>>
    /\ pos = 0
    /\ calls = 0
    /\ restarts = 0
    /\ threads = <<>>
    /\ root_latch_ = {}
    /\ latches = {}
    /\ bpm = DiskOf(0)
    /\ audit = [op |-> "none", page_id |-> INVALID_PAGE_ID, opened_at |-> 0,
                handed |-> {}, session |-> {}]

diskconst == <<leaf_max_size_, internal_max_size_, tree, store, fresh, last, status,
               script, pos, calls, restarts, threads, root_latch_, latches>>

\* disk_manager_->AllocatePage()
DiskAllocate ==
    /\ bpm.next_page_id_ <= MaxPoolPage
    /\ bpm' = [bpm EXCEPT !.next_page_id_ = @ + 1]
    /\ audit' = [audit EXCEPT !.op = "AllocatePage", !.page_id = bpm.next_page_id_,
                              !.handed = @ \cup {bpm.next_page_id_},
                              !.session = @ \cup {bpm.next_page_id_}]
    /\ UNCHANGED diskconst

\* disk_manager_->WritePage(page_id, data)
DiskWrite(page_id) ==
    /\ bpm' = [bpm EXCEPT !.file_size = Size_After_Write(@, page_id)]
    /\ audit' = [audit EXCEPT !.op = "WritePage", !.page_id = page_id]
    /\ UNCHANGED diskconst

\* delete disk_manager_; disk_manager_ = new DiskManager(db_file_name_)
DiskReopen ==
    /\ bpm' = DiskOf(bpm.file_size)
    /\ audit' = [audit EXCEPT !.op = "Reopen", !.page_id = INVALID_PAGE_ID,
                              !.opened_at = bpm.file_size, !.session = {}]
    /\ UNCHANGED diskconst

NextDisk ==
    \/ DiskAllocate
    \/ \E page_id \in PoolPages : DiskWrite(page_id)
    \/ DiskReopen

SpecDisk == InitDisk /\ [][NextDisk]_vars

\* ------------------------------------------------------- a node alone
\* One node of capacity max_size = leaf_max_size_ = internal_max_size_ whose
\* size is set to any value up to the capacity, and the questions the engine
\* asks about it: Is_Underflow and Is_Safe_Page.  The page of the node is
\* page 1 of tree.mem; audit holds the last answer.
NodeSizes == 3..MaxNodeSize
NodeOps == {"Insert", "Remove"}

InitNode ==
    /\ leaf_max_size_ \in NodeSizes
    /\ internal_max_size_ = leaf_max_size_
    /\ tree = [EmptyTree EXCEPT !.mem[1] = NodeInit(TRUE)]
    /\ store = [k \in Keys |-> 0]
    /\ fresh = {}
    /\ last = NoCall
    /\ status = "ok"
    /\ script = <<>>
    /\ pos = 0
    /\ calls = 0
    /\ restarts = 0
    /\ threads = <<>>
    /\ root_latch_ = {}
    /\ latches = {}
    /\ bpm = NoPool
    /\ audit = NoAudit

nodeconst == <<leaf_max_size_, internal_max_size_, store, fresh, last, status, script, pos,
               calls, restarts, threads, root_latch_, latches, bpm>>

\* Node::Init and Node::Set_Size
NodeResize(is_leaf, size) ==
    /\ tree' = [tree EXCEPT !.mem[1] = Set_Size(NodeInit(is_leaf), size)]
    /\ audit' = NoAudit
    /\ UNCHANGED nodeconst

\* Node::Get_Min_Size, Node::Is_Underflow and BPlusTree::Is_Safe_Page asked
\* about the node, for the operation op on a root or on another node
NodeAsk(op, is_root) ==
    /\ audit' = [op |-> op, is_root |-> is_root,
                 is_leaf |-> Is_Leaf(tree.mem[1]),
                 size |-> Get_Size(tree.mem[1]),
                 min_size |-> Get_Min_Size(leaf_max_size_),
                 underflow |-> Is_Underflow(tree.mem[1], leaf_max_size_),
                 safe |-> Is_Safe_Page(tree.mem[1], Is_Leaf(tree.mem[1]), is_root, op,
                                       leaf_max_size_, internal_max_size_)]
    /\ UNCHANGED <<tree, nodeconst>>

NextNode ==
    \/ \E is_leaf \in BOOLEAN, size \in 0..leaf_max_size_ : NodeResize(is_leaf, size)
    \/ \E op \in NodeOps, is_root \in BOOLEAN : NodeAsk(op, is_root)

SpecNode == InitNode /\ [][NextNode]_vars

TypeOK == status \in {"ok", "closed", "fatal"}

\* ------------------------------------------------------------- properties
\* what the calls made so far should have left in the tree
GetNow(k) == Get_Value(tree.mem, tree.root, leaf_max_size_, internal_max_size_, k)
GetNext(k) == Get_Value(tree'.mem, tree'.root, leaf_max_size_, internal_max_size_, k)
Expected(k) == IF store[k] # 0 THEN <<"true", store[k]>> ELSE <<"false", 0>>

\* the stored pairs with lo <= key < hi in ascending key order
RECURSIVE StoredPairs(_, _)
StoredPairs(lo, hi) ==
    IF lo >= hi THEN <<>>
    ELSE IF lo \in Keys /\ store[lo] # 0
         THEN <<<<lo, store[lo]>>>> \o StoredPairs(lo + 1, hi)
         ELSE StoredPairs(lo + 1, hi)

ScanBounds == 0..(MaxKey + 1)

\* C1: a key whose latest call was an Insert that returned true is found by
\* Get_Value, with the value of that Insert.
C1_InsertThenGet ==
    status = "ok" => \A k \in fresh : GetNow(k) = <<"true", store[k]>>

\* C2: Remove of a stored key returns normally, Get_Value of the key is false
\* afterwards and as long as no Insert stores it again, and Get_Value of
\* every other key gives what it gave before the Remove.
C2_RemoveThenGet ==
    [][/\ (last'.op = "Remove" /\ store[last'.key] # 0)
          => /\ last'.res = "ok"
             /\ GetNext(last'.key)[1] = "false"
             /\ \A j \in Keys \ {last'.key} : GetNext(j) = GetNow(j)
       /\ status' = "ok" => \A k \in Keys : (store'[k] = 0 => GetNext(k)[1] = "false")]_vars

\* C3: Range_Scan(lo, hi) returns exactly the stored pairs with lo <= key < hi,
\* each once, in ascending key order, for all bounds lo, hi.
C3_RangeScanExact ==
    status = "ok" =>
        \A lo \in ScanBounds, hi \in ScanBounds :
            Range_Scan(tree, leaf_max_size_, internal_max_size_, lo, hi)
                = [st |-> "ok", out |-> StoredPairs(lo, hi)]

\* C4: iterating from Begin() with ++ until End() yields exactly the stored
\* pairs in ascending key order; on an empty tree Begin() equals End().
C4_IterationExact ==
    status = "ok" =>
        /\ Iterate(tree, leaf_max_size_, internal_max_size_)
               = [st |-> "ok", out |-> StoredPairs(0, MaxKey + 1)]
        /\ (\A k \in Keys : store[k] = 0)
               => Begin(tree, internal_max_size_) = [st |-> "ok", it |-> End]

\* C5: Insert of a key that is stored returns false and changes neither the
\* stored value nor any page, the root page id or the height.
C5_DuplicateInsertNoChange ==
    [][(last'.op = "Insert" /\ store[last'.key] # 0)
          => /\ last'.res = "false"
             /\ store' = store
             /\ GetNext(last'.key) = GetNow(last'.key)
             /\ tree'.mem = tree.mem
             /\ tree'.root = tree.root
             /\ Height(tree', internal_max_size_) = Height(tree, internal_max_size_)]_vars

\* C6: Remove of a key that is not stored returns normally and changes
\* neither the stored pairs nor any page (node contents and leaf chain) nor
\* the root page id.
C6_RemoveAbsentNoChange ==
    [][(last'.op = "Remove" /\ store[last'.key] = 0)
          => /\ last'.res = "ok"
             /\ store' = store
             /\ \A k \in Keys : GetNext(k) = GetNow(k)
             /\ tree'.mem = tree.mem
             /\ tree'.root = tree.root]_vars

\* a Remove of a key that was not stored has returned, in a tree of height
\* >= 2 that stores keys on both sides of it
C6_Witness ==
    /\ last.op = "Remove" /\ ~last.had /\ last.res = "ok"
    /\ status = "ok"
    /\ Height(tree, internal_max_size_) >= 2
    /\ \E a \in Keys, b \in Keys : a < last.key /\ last.key < b /\ store[a] # 0 /\ store[b] # 0

\* C7: after a close and a reopen Get_Value gives for every key the value
\* the calls stored, and Is_Empty holds exactly when no key is stored.
C7_ReopenKeepsPairs ==
    last.op = "Reopen" =>
        /\ \A k \in Keys : GetNow(k) = Expected(k)
        /\ (tree.root = INVALID_PAGE_ID) <=> (\A k \in Keys : store[k] = 0)

\* ------------------------------------------------- the shape of the tree
\* What the pages say about the tree, read as the code reads them: the
\* children of an internal page are children[0 .. size], the keys of a leaf
\* are keys[0 .. size-1].  A size beyond the arrays is followed as far as the
\* page goes.
Capped(n) == IF n > MaxCap + 1 THEN MaxCap + 1 ELSE n

Children(m, I, pid) ==
    IF Is_Leaf(Content(m, pid)) THEN {}
    ELSE {Child_At(Content(m, pid), I, j) : j \in 0..Capped(Get_Size(Content(m, pid)))}

\* the pages reachable from the pages of `frontier`
RECURSIVE Reach(_, _, _, _)
Reach(m, I, frontier, seen) ==
    IF frontier = {} THEN seen
    ELSE Reach(m, I,
               ((UNION {Children(m, I, pid) : pid \in frontier}) \cap PageIds) \ (seen \cup frontier),
               seen \cup frontier)

Subtree(m, I, pid) == IF pid \in PageIds THEN Reach(m, I, {pid}, {}) ELSE {}

Tree_Pages(t, I) == Subtree(t.mem, I, t.root)

Leaf_Keys(p) == {Leaf_Key(p, i) : i \in 0..(Capped(Get_Size(p)) - 1)}

\* the keys in the leaves below (or at) page pid
Subtree_Keys(m, I, pid) ==
    UNION {Leaf_Keys(Content(m, q)) : q \in {r \in Subtree(m, I, pid) : Is_Leaf(Content(m, r))}}

\* the depths at which the walk from the pages of `frontier` meets a leaf
\* or a child that is no page (0 - 1 stands for the latter and for a walk
\* that does not end)
RECURSIVE Leaf_Depths(_, _, _, _, _)
Leaf_Depths(m, I, frontier, depth, fuel) ==
    IF frontier = {} THEN {}
    ELSE IF fuel = 0 \/ ~(frontier \subseteq PageIds) THEN {0 - 1}
    ELSE (IF \E pid \in frontier : Is_Leaf(Content(m, pid)) THEN {depth} ELSE {})
         \cup Leaf_Depths(m, I, UNION {Children(m, I, pid) : pid \in frontier}, depth + 1, fuel - 1)

\* the leaves next_page_id links, from leaf pid on
RECURSIVE Chain(_, _, _, _)
Chain(m, pid, acc, fuel) ==
    IF pid \notin PageIds \/ fuel = 0 THEN [end |-> pid, leaves |-> acc]
    ELSE Chain(m, Get_Next_Page_Id(Content(m, pid)), Append(acc, pid), fuel - 1)

\* the sequential client is between two calls, none of which threw
Quiescent == threads = <<>> /\ status = "ok"

\* ------------------------------------------- properties of the structure
\* C12: after every completed Insert or Remove each page of the tree but the
\* root holds at least Get_Min_Size(max) and at most max keys, max being
\* leaf_max_size_ for a leaf and internal_max_size_ for an internal page.
Size_In_Bounds(p, max_size) ==
    Get_Min_Size(max_size) <= Get_Size(p) /\ Get_Size(p) <= max_size

C12_NodeSizesInBounds ==
    Quiescent =>
        \A pid \in Tree_Pages(tree, internal_max_size_) \ {tree.root} :
            Size_In_Bounds(Content(tree.mem, pid),
                           IF Is_Leaf(Content(tree.mem, pid)) THEN leaf_max_size_
                           ELSE internal_max_size_)

\* ---------------------------------------------- properties of the writers
\* the calls thread t was started with
ProgOf(t) == IF t = 1 THEN script[1] ELSE script[2]

\* every thread has made its calls and each of them returned
WritersDone == \A t \in Writers : threads[t].pc = "idle" /\ threads[t].prog = <<>>

\* no key occurs in two calls
DistinctKeys ==
    \A t \in Writers, u \in Writers : \A i \in 1..Len(ProgOf(t)), j \in 1..Len(ProgOf(u)) :
        (t # u \/ i # j) => ProgOf(t)[i].key # ProgOf(u)[j].key

\* what a sequential execution of the calls leaves for k when no key occurs
\* in two calls
ExpectedAfter(k) ==
    IF \E t \in Writers : \E i \in 1..Len(ProgOf(t)) : ProgOf(t)[i] = Ins(k)
    THEN <<"true", WriterValue(CHOOSE t \in Writers : \E i \in 1..Len(ProgOf(t)) : ProgOf(t)[i] = Ins(k), k)>>
    ELSE IF \E t \in Writers : \E i \in 1..Len(ProgOf(t)) : ProgOf(t)[i] = Rem(k)
    THEN <<"false", 0>>
    ELSE Expected(k)

\* the results of the Insert calls made so far, over all threads
InsertResults ==
    {<<t, i>> \in Writers \X (1..MaxKey) :
        i <= Len(threads[t].out) /\ threads[t].out[i].op = "Insert"}

\* C8: threads that run Insert and Remove on pairwise distinct keys: every
\* Insert of a key that is not stored returns true, and when all threads
\* have finished the tree holds the pairs a sequential execution leaves.
C8_DistinctKeysAsSequential ==
    (threads # <<>> /\ DistinctKeys) =>
        /\ \A c \in InsertResults :
              store[threads[c[1]].out[c[2]].key] = 0 => threads[c[1]].out[c[2]].res = "true"
        /\ WritersDone => \A k \in Keys : GetNow(k) = ExpectedAfter(k)

\* the threads race to insert one key that is not stored
SameKeyRace ==
    /\ threads # <<>>
    /\ \E k \in Keys : store[k] = 0 /\ \A t \in Writers : ProgOf(t) = <<Ins(k)>>

\* the threads whose Insert has returned res
Returned(res) ==
    {t \in Writers : Len(threads[t].out) = 1 /\ threads[t].out[1].res = res}

\* C9: of the concurrent calls Insert(k, v1) and Insert(k, v2) for a key k
\* that is not stored, exactly one returns true and the other false, and
\* the tree then stores k with the value of the call that returned true.
C9_SameKeyOneWinner ==
    SameKeyRace =>
        /\ Cardinality(Returned("true")) <= 1
        /\ WritersDone =>
              /\ Cardinality(Returned("true")) = 1
              /\ Cardinality(Returned("false")) = NumWriters - 1
              /\ \A t \in Returned("true") :
                    GetNow(script[1][1].key) = <<"true", WriterValue(t, script[1][1].key)>>

\* ---------------------------------------------- properties of the readers
\* C10: eight threads call Get_Value on a tree of height >= 2 that nobody
\* writes, over a pool of POOL_SIZE frames: no call throws, and a call that
\* has returned has found the stored value of a stored key and nothing for
\* a key that is not stored.
C10_ReadersReturn ==
    (bpm # NoPool /\ Height(tree, internal_max_size_) >= 2) =>
        /\ status # "fatal"
        /\ \A t \in Readers :
              /\ threads[t].pc # "dead"
              /\ threads[t].pc = "done" =>
                    threads[t].out = (IF threads[t].key \in Keys THEN Expected(threads[t].key)
                                      ELSE <<"false", 0>>)

\* ------------------------------------- properties of the concurrent mix
\* thread t is at an acquisition that does not succeed now: lock_shared()
\* or lock() of root_latch_, WLatch() or RLatch() of the page it goes to,
\* WLatch() of a sibling in Handle_Underflow
Page_Wait(t, th, pd) ==
    IF th.first_round /\ ~Is_Leaf(pd) THEN ~PageShareable(th.child) ELSE ~PageFree(th.child)

Waits(t) ==
    CASE threads[t].pc = "idle" -> threads[t].prog # <<>> /\ ~RootShareable
      [] threads[t].pc = "relock" -> ~RootShareable
      [] threads[t].pc \in {"upgrade", "lockroot"} -> ~RootFree
      [] threads[t].pc = "descend" ->
            IF threads[t].child = INVALID_PAGE_ID THEN FALSE
            ELSE Page_Wait(t, threads[t], Content(tree.mem, threads[t].child))
      [] threads[t].pc = "atleaf" ->
            /\ threads[t].op = "Remove"
            /\ \E h \in latches : h[2] # t /\ h[1] \in Sibling_Candidates(threads[t].ps)
      [] OTHER -> FALSE

\* some call has not returned and every thread that could make it return
\* waits
WritersStuck ==
    /\ ~WritersDone
    /\ \A t \in Writers :
          \/ threads[t].pc = "dead"
          \/ threads[t].pc = "idle" /\ threads[t].prog = <<>>
          \/ Waits(t)

\* C11: threads that run a mix of Insert and Remove on one tree, removals
\* that empty the tree included: no call throws, and as long as some call
\* has not returned some thread can go on (no deadlock, no call that waits
\* for ever for a latch or for the root lock).
C11_EveryCallReturns ==
    (threads # <<>> /\ bpm = NoPool) =>
        /\ \A t \in Writers : threads[t].pc # "dead"
        /\ ~WritersStuck

\* C13: after every completed Insert or Remove, for every internal page of
\* the tree and every separator keys[i] of it, the keys below children[i]
\* are less than keys[i] and the keys below children[i + 1] are not.
Separated(m, I, p, i) ==
    /\ \A k \in Subtree_Keys(m, I, Child_At(p, I, i)) : k < Int_Key(p, i)
    /\ \A k \in Subtree_Keys(m, I, Child_At(p, I, i + 1)) : k >= Int_Key(p, i)

C13_SeparatorsOrderSubtrees ==
    Quiescent =>
        \A pid \in Tree_Pages(tree, internal_max_size_) :
            Is_Leaf(Content(tree.mem, pid)) \/
            \A i \in 0..(Capped(Get_Size(Content(tree.mem, pid))) - 1) :
                Separated(tree.mem, internal_max_size_, Content(tree.mem, pid), i)

\* the keys of leaf p, and of the leaves of a chain, in the order of the slots
Leaf_Key_Seq(p) == [i \in 1..Capped(Get_Size(p)) |-> Leaf_Key(p, i - 1)]

RECURSIVE Keys_Along(_, _, _)
Keys_Along(m, leaves, i) ==
    IF i > Len(leaves) THEN <<>>
    ELSE Leaf_Key_Seq(Content(m, leaves[i])) \o Keys_Along(m, leaves, i + 1)

Ascending(s) == \A i \in 1..(Len(s) - 1) : s[i] < s[i + 1]

\* the chain c, followed from the leftmost leaf, is the leaves of the tree,
\* each once, and ks, the keys along it, are the stored keys in order
Chain_Is_Tree(t, I, c, ks) ==
    /\ c.end = INVALID_PAGE_ID
    /\ Cardinality(SeqToSet(c.leaves)) = Len(c.leaves)
    /\ SeqToSet(c.leaves) = {pid \in Tree_Pages(t, I) : Is_Leaf(Content(t.mem, pid))}
    /\ Ascending(ks)
    /\ SeqToSet(ks) = {k \in Keys : store[k] # 0}

Chain_From(t, I, c) == Chain_Is_Tree(t, I, c, Keys_Along(t.mem, c.leaves, 1))

Leftmost(t, I) == DescendLeft(t.mem, I, t.root, <<>>, DescentFuel)

\* C14: after every completed Insert or Remove, following next_page_id from
\* the leftmost leaf visits every leaf of the tree once, meets the stored
\* keys in ascending order, each once, and ends at INVALID_PAGE_ID.
C14_LeafChainIsTheTree ==
    (Quiescent /\ tree.root # INVALID_PAGE_ID) =>
        /\ Leftmost(tree, internal_max_size_).st = "ok"
        /\ Chain_From(tree, internal_max_size_,
                      Chain(tree.mem, Last(Leftmost(tree, internal_max_size_).path), <<>>, DescentFuel))

\* BPlusTree::Is_Empty
Is_Empty(t) == t.root = INVALID_PAGE_ID

Leaves_Level(t, I) ==
    \/ t.root = INVALID_PAGE_ID
    \/ /\ (0 - 1) \notin Leaf_Depths(t.mem, I, {t.root}, 1, DescentFuel)
       /\ Cardinality(Leaf_Depths(t.mem, I, {t.root}, 1, DescentFuel)) = 1

\* a call that returned has led from one quiescent state to the next
Completed(op) == Quiescent /\ Quiescent' /\ last'.op = op /\ (pos' # pos \/ calls' # calls)

\* C16: the height of the tree, the number of pages on the path from the
\* root to a leaf, does not decrease with an Insert and does not increase
\* with a Remove, and between two calls all leaves are at the same depth.
C16_HeightMonotone ==
    /\ [](Quiescent => Leaves_Level(tree, internal_max_size_))
    /\ [][/\ Completed("Insert") =>
                Height(tree', internal_max_size_) >= Height(tree, internal_max_size_)
          /\ Completed("Remove") =>
                Height(tree', internal_max_size_) <= Height(tree, internal_max_size_)]_vars


\* ------------------------------------------- properties of the buffer pool
PoolFramesOf(b) == DOMAIN b.pages_

\* the frame is pinned
Pinned(b, frame_id) == b.pages_[frame_id].pin_count > 0

\* C17: under any interleaving of FetchPage, NewPage, UnpinPage and
\* DeletePage calls a frame whose pin count is greater than zero is not in
\* the replacer or the free list, is not the victim of the next call, and
\* keeps its page id and, unless its client writes them, its bytes.
C17_PinnedFrameKept ==
    /\ [](\A f \in PoolFramesOf(bpm) :
            Pinned(bpm, f) => f \notin SeqToSet(bpm.lru_list_) \cup SeqToSet(bpm.free_list_))
    /\ [][\A f \in PoolFramesOf(bpm) :
            Pinned(bpm, f) =>
                /\ audit'.victim # f
                /\ bpm'.pages_[f].page_id = bpm.pages_[f].page_id
                /\ audit'.op # "Write" => bpm'.pages_[f].data = bpm.pages_[f].data]_vars

\* a call has just evicted a frame while the other frame, pinned and
\* written by its client, stayed as it was
C17_Witness ==
    /\ audit.op \in {"FetchPage", "NewPage"}
    /\ audit.res = "page"
    /\ audit.victim # NoFrame
    /\ \E f \in PoolFramesOf(bpm) \ {audit.victim} :
            /\ Pinned(bpm, f)
            /\ bpm.pages_[f].data # 0
            /\ bpm.pages_[f].page_id # audit.page_id

\* no frame is free and every frame is pinned
All_Pinned(b) == b.free_list_ = <<>> /\ \A f \in PoolFramesOf(b) : Pinned(b, f)

\* the call returned the page, which is now resident and pinned
Page_Returned(b, page_id) ==
    b.page_table_[page_id] # NoFrame /\ Pinned(b, b.page_table_[page_id])

\* C18: NewPage, and FetchPage of a page that is not resident, return null if
\* and only if the free list is empty and every frame is pinned; FetchPage
\* of a resident page never returns null; a call that does not return null
\* leaves the page resident and pinned.
C18_NullIffAllPinned ==
    [][/\ audit'.op = "NewPage" => (audit'.res = "null" <=> All_Pinned(bpm))
       /\ audit'.op = "FetchPage" =>
            (audit'.res = "null" <=>
                (bpm.page_table_[audit'.page_id] = NoFrame /\ All_Pinned(bpm)))
       /\ (audit'.op \in {"NewPage", "FetchPage"} /\ audit'.res = "page")
            => Page_Returned(bpm', audit'.page_id)]_vars

\* FetchPage of a page that is not resident has just returned null with
\* every frame pinned, after an earlier call had evicted a page
C18_Witness ==
    /\ audit.op = "FetchPage"
    /\ audit.res = "null"
    /\ bpm.page_table_[audit.page_id] = NoFrame
    /\ All_Pinned(bpm)
    /\ \E p \in PoolPages : bpm.disk[p] # 0

\* C19: the bytes a page held when it was unpinned with is_dirty = true are
\* the bytes a later FetchPage of that page id returns, however many
\* evictions and frame reuses lie in between (a page that was written again,
\* deleted, or handed out anew by NewPage since then has no such bytes).
C19_ReadYourWrites ==
    (audit.op = "FetchPage" /\ audit.res = "page" /\ audit.know[audit.page_id] # NoDemand)
        => bpm.pages_[bpm.page_table_[audit.page_id]].data = audit.know[audit.page_id]

\* UnpinPage(page_id, -) took the pool from b to c and returned res, as the
\* claim has it; frame_id is the frame of the page in b
Unpinned_As_Claimed(b, c, res, frame_id) ==
    IF frame_id = NoFrame THEN res = "false" /\ c = b
    ELSE IF b.pages_[frame_id].pin_count = 0 THEN res = "false" /\ c = b
    ELSE /\ res = "true"
         /\ c.pages_[frame_id].pin_count = b.pages_[frame_id].pin_count - 1
         /\ frame_id \in SeqToSet(c.lru_list_) <=> c.pages_[frame_id].pin_count = 0
         /\ \A f \in PoolFramesOf(b) \ {frame_id} :
                /\ c.pages_[f] = b.pages_[f]
                /\ f \in SeqToSet(c.lru_list_) <=> f \in SeqToSet(b.lru_list_)
         /\ c.page_table_ = b.page_table_
         /\ c.free_list_ = b.free_list_

\* C20: UnpinPage(id, dirty) returns false and changes nothing when id is
\* not resident or its pin count is zero; otherwise it decrements the pin
\* count by exactly one and returns true, and the frame is in the replacer
\* afterwards exactly when the count has reached zero; no pin count is ever
\* negative.
C20_UnpinPage ==
    /\ [](\A f \in PoolFramesOf(bpm) : bpm.pages_[f].pin_count >= 0)
    /\ [][audit'.op = "UnpinPage" =>
            Unpinned_As_Claimed(bpm, bpm', audit'.res, bpm.page_table_[audit'.page_id])]_vars

\* UnpinPage has just returned true for a page pinned twice: the frame is
\* still pinned and not in the replacer, which holds the other frame
C20_Witness ==
    /\ audit.op = "UnpinPage"
    /\ audit.res = "true"
    /\ bpm.page_table_[audit.page_id] # NoFrame
    /\ bpm.pages_[bpm.page_table_[audit.page_id]].pin_count = 1
    /\ bpm.page_table_[audit.page_id] \notin SeqToSet(bpm.lru_list_)
    /\ bpm.lru_list_ # <<>>

\* DeletePage(page_id) took the pool from b to c and returned res, as the
\* claim has it; frame_id is the frame of the page in b
Deleted_As_Claimed(b, c, res, page_id, frame_id) ==
    IF frame_id = NoFrame THEN res = "true" /\ c = b
    ELSE IF b.pages_[frame_id].pin_count > 0 THEN res = "false" /\ c = b
    ELSE /\ res = "true"
         /\ c.page_table_ = [b.page_table_ EXCEPT ![page_id] = NoFrame]
         /\ SeqToSet(c.lru_list_) = SeqToSet(b.lru_list_) \ {frame_id}
         /\ c.pages_ = [b.pages_ EXCEPT ![frame_id] = ResetFrame]
         /\ c.free_list_ = Append(b.free_list_, frame_id)
         /\ c.disk = b.disk

\* C21: DeletePage(id) returns true without any change when id is not
\* resident, returns false without any change when the frame of the page is
\* pinned, and otherwise returns true after it removed the page from the
\* page table and its frame from the replacer, zeroed the frame and put it at
\* the back of the free list.
C21_DeletePage ==
    [][audit'.op = "DeletePage" =>
        Deleted_As_Claimed(bpm, bpm', audit'.res, audit'.page_id,
                           bpm.page_table_[audit'.page_id])]_vars

\* DeletePage has just freed the frame of a resident page while the other
\* frame holds a pinned page
C21_Witness ==
    /\ audit.op = "DeletePage"
    /\ audit.res = "true"
    /\ audit.victim # NoFrame
    /\ bpm.free_list_ = <<audit.victim>>
    /\ bpm.pages_[audit.victim] = ResetFrame
    /\ bpm.page_table_[audit.page_id] = NoFrame
    /\ \E f \in PoolFramesOf(bpm) : Pinned(bpm, f)

\* ---------------------------------------------- properties of the replacer
\* the frames in the order in which Victim returns them
RECURSIVE Victims(_)
Victims(lru_list) ==
    IF lru_list = <<>> THEN <<>>
    ELSE <<Victim(lru_list).frame_id>> \o Victims(Victim(lru_list).lru_list)

\* C22: after Unpin(f), for every replacer state and every frame f, the
\* frame is evictable and every other evictable frame is returned by Victim
\* before f; Victim returns false only when no frame is evictable and
\* otherwise returns and removes the least recently used evictable frame.
C22_LeastRecentlyUsed ==
    [][/\ audit'.op = "Unpin" =>
            /\ audit'.frame_id \in SeqToSet(bpm'.lru_list_)
            /\ Last(Victims(bpm'.lru_list_)) = audit'.frame_id
       /\ audit'.op = "Victim" =>
            /\ audit'.found <=> audit.order # <<>>
            /\ audit.order # <<>> =>
                /\ audit'.frame_id = Last(audit.order)
                /\ audit'.frame_id \notin SeqToSet(bpm'.lru_list_)]_vars

\* ------------------------------------------ properties of the disk manager
\* C23: AllocatePage returns the page count the file had when it was opened
\* (0 for a new file) at its first call and a greater id at each later call,
\* and it never returns an id it has returned before, in this session or
\* before a close and reopen of the file.
C23_AllocateNeverRepeats ==
    [][audit'.op = "AllocatePage" =>
        /\ audit.session = {} => audit'.page_id = audit.opened_at
        /\ \A id \in audit.session : audit'.page_id > id
        /\ audit'.page_id \notin audit.handed]_vars

\* ------------------------------------------------ a scan beside a writer
\* One thread runs  for (it = Begin(); it != End(); ++it) result.push_back(*it)
\* while another calls Insert and Remove with a transaction.  The keys
\* 1 .. ScanLoad are stored before the threads start.  threads.scan is the
\* iterator with the program counter of the loop, threads.writer the call
\* of the writer: ps the page set of its transaction, want the siblings
\* Handle_Underflow has still to latch, sib those it has latched, r the tree
\* and the result the call ends with and del its deleted page set (no other
\* thread writes, so they are known once the call holds its leaf).
ScanLoad == 6
MaxScanResult == 8
MaxScanCalls == 2

\* a writer that latches the pages of its path before it fetches them
Fetched_Late(b, pages) == b

\* the pool after FetchPage of every page of the sequence
RECURSIVE Fetched(_, _)
Fetched(b, pages) ==
    IF pages = <<>> THEN b ELSE Fetched(FetchPage(b, Head(pages)), Tail(pages))

\* the pool after UnpinPage(page, is_dirty) of every page of the sequence
RECURSIVE Unpinned(_, _, _)
Unpinned(b, pages, is_dirty) ==
    IF pages = <<>> THEN b
    ELSE Unpinned(UnpinPage(b, Head(pages), is_dirty), Tail(pages), is_dirty)

\* the pool after DeletePage of every page of the set
RECURSIVE Pool_Deleted(_, _)
Pool_Deleted(b, del) ==
    IF del = {} THEN b
    ELSE Pool_Deleted(Pool_DeletePage(b, CHOOSE x \in del : TRUE),
                      del \ {CHOOSE x \in del : TRUE})

NoWriterCall ==
    [pc |-> "idle", op |-> "none", key |-> 0, ps |-> <<>>, want |-> <<>>, sib |-> <<>>,
     r |-> [t |-> EmptyTree, res |-> "none"], del |-> {}]

scanconst == <<leaf_max_size_, internal_max_size_, fresh, last, script, pos, restarts>>

InitScan ==
    /\ leaf_max_size_ \in LeafSizes
    /\ internal_max_size_ \in InternalSizes
    /\ tree = Loaded(EmptyTree, leaf_max_size_, internal_max_size_, 1, ScanLoad)
    /\ store = [k \in Keys |-> IF k <= ScanLoad THEN ScriptValue(k) ELSE 0]
    /\ threads = [scan |-> [pc |-> "begin", it |-> End, next |-> INVALID_PAGE_ID,
                            child |-> INVALID_PAGE_ID, prev |-> INVALID_PAGE_ID,
                            result |-> <<>>],
                  writer |-> NoWriterCall]
    /\ bpm = OpenedPool
    /\ audit = NoAudit
    /\ fresh = {}
    /\ last = NoCall
    /\ status = "ok"
    /\ script = <<>>
    /\ pos = 0
    /\ calls = 0
    /\ restarts = 0
    /\ root_latch_ = {}
    /\ latches = {}

\* the scanning thread is at pc with the iterator it
Scan_At(pc, it) == [threads EXCEPT !.scan.pc = pc, !.scan.it = it]

\* Begin() 456-464: root_latch_.lock_shared() and Is_Empty()
ScanBegin ==
    /\ status = "ok"
    /\ threads.scan.pc = "begin"
    /\ RootShareable
    /\ IF tree.root = INVALID_PAGE_ID
       THEN /\ threads' = Scan_At("done", End)
            /\ root_latch_' = root_latch_
       ELSE /\ threads' = [threads EXCEPT !.scan.pc = "fetch", !.scan.child = tree.root]
            /\ root_latch_' = root_latch_ \cup {<<"scan", "S">>}
    /\ UNCHANGED <<tree, store, status, calls, latches, bpm, audit, scanconst>>

\* Begin() 466-475: FetchPage(child)
ScanFetch ==
    /\ status = "ok"
    /\ threads.scan.pc = "fetch"
    /\ threads.scan.child \in PageIds
    /\ bpm' = FetchPage(bpm, threads.scan.child)
    /\ threads' = [threads EXCEPT !.scan.pc = "latch"]
    /\ UNCHANGED <<tree, store, status, calls, root_latch_, latches, audit, scanconst>>

\* the scanning thread after it latched page with the bytes pd: on the
\* first entry of the leaf, or on its way to the first child
Scan_Goes_On(th, page, pd) ==
    IF Is_Leaf(pd)
    THEN [th EXCEPT !.pc = "body", !.it = [page_id |-> page, index |-> 0],
                    !.child = INVALID_PAGE_ID, !.prev = INVALID_PAGE_ID]
    ELSE [th EXCEPT !.pc = "fetch", !.child = Child_At(pd, internal_max_size_, 0),
                    !.prev = page]

\* Begin() 476-491: RLatch of the page, then the page the thread came from
\* is unlatched and unpinned (root_latch_.unlock_shared() above the root)
ScanLatch ==
    /\ status = "ok"
    /\ threads.scan.pc = "latch"
    /\ PageShareable(threads.scan.child)
    /\ IF threads.scan.prev = INVALID_PAGE_ID
       THEN /\ root_latch_' = {h \in root_latch_ : h[1] # "scan"}
            /\ latches' = latches \cup {<<threads.scan.child, "scan", "R">>}
            /\ bpm' = bpm
       ELSE /\ root_latch_' = root_latch_
            /\ latches' = (latches \ {<<threads.scan.prev, "scan", "R">>})
                              \cup {<<threads.scan.child, "scan", "R">>}
            /\ bpm' = UnpinPage(bpm, threads.scan.prev, FALSE)
    /\ threads' = [threads EXCEPT !.scan =
                      Scan_Goes_On(@, threads.scan.child, Content(tree.mem, threads.scan.child))]
    /\ UNCHANGED <<tree, store, status, calls, audit, scanconst>>

\* the body of the loop: *it is appended to the result
ScanBody ==
    /\ status = "ok"
    /\ threads.scan.pc = "body"
    /\ threads' = [threads EXCEPT
                      !.scan.pc = "incr",
                      !.scan.result =
                          IF Len(@) < MaxScanResult
                          THEN Append(@, Deref(tree, leaf_max_size_, threads.scan.it)[1])
                          ELSE @]
    /\ UNCHANGED <<tree, store, status, calls, root_latch_, latches, bpm, audit, scanconst>>

\* operator++ 83-95: the next entry of the leaf, or FetchPage of the next
\* leaf; 110-120: without a next leaf the iterator becomes End()
ScanIncr ==
    /\ status = "ok"
    /\ threads.scan.pc = "incr"
    /\ LET it == threads.scan.it
           p == Content(tree.mem, it.page_id)
       IN IF it.index < Get_Size(p) - 1
          THEN /\ threads' = Scan_At("body", [it EXCEPT !.index = @ + 1])
               /\ UNCHANGED <<latches, bpm>>
          ELSE IF Get_Next_Page_Id(p) # INVALID_PAGE_ID
          THEN /\ threads' = [threads EXCEPT !.scan.pc = "try",
                                             !.scan.next = Get_Next_Page_Id(p)]
               /\ bpm' = FetchPage(bpm, Get_Next_Page_Id(p))
               /\ UNCHANGED latches
          ELSE /\ threads' = Scan_At("done", End)
               /\ latches' = latches \ {<<it.page_id, "scan", "R">>}
               /\ bpm' = UnpinPage(bpm, it.page_id, FALSE)
    /\ UNCHANGED <<tree, store, status, calls, root_latch_, audit, scanconst>>

\* operator++ 96-109: TryRLatch on the next leaf.  It fails while the writer
\* holds the write latch: the pin of the next leaf is given back and the
\* iterator is left as it is
ScanTry ==
    /\ status = "ok"
    /\ threads.scan.pc = "try"
    /\ LET it == threads.scan.it
           next_id == threads.scan.next
       IN IF PageShareable(next_id)
          THEN /\ threads' = [Scan_At("body", [page_id |-> next_id, index |-> 0])
                                 EXCEPT !.scan.next = INVALID_PAGE_ID]
               /\ latches' = (latches \ {<<it.page_id, "scan", "R">>})
                                \cup {<<next_id, "scan", "R">>}
               /\ bpm' = UnpinPage(bpm, it.page_id, FALSE)
               /\ audit' = [op |-> "TryRLatch", res |-> TRUE, page_id |-> it.page_id]
          ELSE /\ threads' = [Scan_At("body", it) EXCEPT !.scan.next = INVALID_PAGE_ID]
               /\ latches' = latches
               /\ bpm' = UnpinPage(bpm, next_id, FALSE)
               /\ audit' = [op |-> "TryRLatch", res |-> FALSE, page_id |-> it.page_id]
    /\ UNCHANGED <<tree, store, status, calls, root_latch_, scanconst>>

\* the page set with which Get_Leaf_Page returns the leaf at the end of
\* path: the leaf alone after the first round, root_latch_ (NullPtr) and the
\* whole path after the second
Page_Set_Of(t, L, I, op, path) ==
    IF Is_Safe_Page(Content(t.mem, Last(path)), TRUE, Last(path) = t.root, op, L, I)
    THEN <<Last(path)>>
    ELSE <<NullPtr>> \o path

\* the pages of a page set
Pages_Of(ps) == SelectSeq(ps, LAMBDA p : p # NullPtr)

\* the siblings Handle_Underflow fetches and write-latches, left one first
Wanted(c) ==
    (IF c.has_left THEN <<c.left_id>> ELSE <<>>) \o (IF c.has_right THEN <<c.right_id>> ELSE <<>>)

Wanted_Under(t, I, path, pa) ==
    Wanted(Siblings(t, I, Last(path), path[Len(path) - 1], Len(path) - 1,
                    Find_Child_Index(pa, I, Last(path)), pa))

\* the siblings the Remove of key will ask for: those of the leaf, if the
\* leaf is not the root, underflows and has its parent in the page set
Wanted_By(t, L, I, op, key, path, lp, ps) ==
    IF /\ op = "Remove"
       /\ Last(path) # t.root
       /\ Len(ps) > 1
       /\ Get_Size(Leaf_Remove(lp, L, key)) < Get_Size(lp)
       /\ Is_Underflow(Leaf_Remove(lp, L, key), L)
    THEN Wanted_Under(t, I, path, Content(t.mem, path[Len(path) - 1]))
    ELSE <<>>

\* Insert / Remove up to the return of Get_Leaf_Page: the leaf is
\* write-latched; after the second round so are root_latch_ and the path
Writer_Latches(op, key, path, ps, r, del) ==
    /\ \A i \in 1..Len(Pages_Of(ps)) : PageFree(Pages_Of(ps)[i])
    /\ Head(ps) = NullPtr => RootFree
    /\ root_latch_' = IF Head(ps) = NullPtr THEN {<<"writer", "X">>} ELSE root_latch_
    /\ latches' = latches \cup {<<Pages_Of(ps)[i], "writer", "W">> : i \in 1..Len(Pages_Of(ps))}
    /\ bpm' = Fetched(bpm, Pages_Of(ps))
    /\ threads' = [threads EXCEPT !.writer =
                      [pc |-> "latched", op |-> op, key |-> key, ps |-> ps,
                       want |-> Wanted_By(tree, leaf_max_size_, internal_max_size_, op, key,
                                          path, Content(tree.mem, Last(path)), ps),
                       sib |-> <<>>, r |-> r, del |-> del]]

\* the call op(key) of the writer on tree t: [t |-> tree after, res]
Writer_Result(t, L, I, op, key) ==
    IF op = "Insert" THEN Insert(t, L, I, key, ScriptValue(key)) ELSE Remove(t, L, I, key)

\* the deleted page set of the transaction when Remove has come back from
\* Handle_Underflow
Marked_From_Leaf(t, L, I, ps, lp, lp1) ==
    IF Get_Size(lp1) < Get_Size(lp) /\ Is_Underflow(lp1, L)
    THEN Handle_Underflow(Leaf_Removed(t, ps, lp1), L, I, ps, Len(ps)).del
    ELSE {}

Marked_On(t, L, I, key, d) ==
    IF d.st # "ok" THEN {}
    ELSE Marked_From_Leaf(t, L, I, Page_Set(t, L, I, d.path), Content(t.mem, Last(d.path)),
                          Leaf_Remove(Content(t.mem, Last(d.path)), L, key))

Marked(t, L, I, op, key) ==
    IF op # "Remove" \/ t.root = INVALID_PAGE_ID THEN {}
    ELSE Marked_On(t, L, I, key, Descend(t.mem, I, t.root, key, <<>>, DescentFuel))

WriterCall(op, key) ==
    /\ status = "ok"
    /\ calls < MaxScanCalls
    /\ threads.writer.pc = "idle"
    /\ tree.root # INVALID_PAGE_ID
    /\ Descend(tree.mem, internal_max_size_, tree.root, key, <<>>, DescentFuel).st = "ok"
    /\ Writer_Latches(op, key,
                      Descend(tree.mem, internal_max_size_, tree.root, key, <<>>, DescentFuel).path,
                      Page_Set_Of(tree, leaf_max_size_, internal_max_size_, op,
                                  Descend(tree.mem, internal_max_size_, tree.root, key, <<>>,
                                          DescentFuel).path),
                      Writer_Result(tree, leaf_max_size_, internal_max_size_, op, key),
                      Marked(tree, leaf_max_size_, internal_max_size_, op, key))
    /\ threads'.writer.r.t.next <= MaxPageId + 1
    /\ UNCHANGED <<tree, store, status, calls, audit, scanconst>>

\* Handle_Underflow 719-728: FetchPage and WLatch of a sibling
WriterSibling ==
    /\ status = "ok"
    /\ threads.writer.pc = "latched"
    /\ threads.writer.want # <<>>
    /\ PageFree(Head(threads.writer.want))
    /\ latches' = latches \cup {<<Head(threads.writer.want), "writer", "W">>}
    /\ bpm' = FetchPage(bpm, Head(threads.writer.want))
    /\ threads' = [threads EXCEPT !.writer.want = Tail(@),
                                  !.writer.sib = Append(@, Head(threads.writer.want))]
    /\ UNCHANGED <<tree, store, status, calls, root_latch_, audit, scanconst>>

\* a Remove that applies DeletePage before it gives up its pins
Writer_Released_Late(b, w) == b

\* the pool after Release_Siblings and Release_W_Latches of the call w
Writer_Released(b, w) == Unpinned(Unpinned(b, w.sib, TRUE), Pages_Of(w.ps), TRUE)

\* the call of the writer has changed the pages it has latched and ends:
\* Release_Siblings, Release_W_Latches (page set and root_latch_).  A call
\* that throws releases nothing
WriterRelease ==
    /\ status = "ok"
    /\ threads.writer.pc = "latched"
    /\ threads.writer.want = <<>>
    /\ tree' = threads.writer.r.t
    /\ status' = Ended(threads.writer.r.res)
    /\ store' = IF threads.writer.op = "Insert" /\ threads.writer.r.res = "true"
                THEN [store EXCEPT ![threads.writer.key] = ScriptValue(threads.writer.key)]
                ELSE IF threads.writer.op = "Remove" /\ threads.writer.r.res = "ok"
                THEN [store EXCEPT ![threads.writer.key] = 0]
                ELSE store
    /\ IF threads.writer.r.res \in {"throw", "hang"}
       THEN UNCHANGED <<latches, root_latch_, bpm, threads>>
       ELSE /\ latches' = {h \in latches : h[2] # "writer"}
            /\ root_latch_' = {h \in root_latch_ : h[1] # "writer"}
            /\ bpm' = Writer_Released(bpm, threads.writer)
            /\ threads' = [threads EXCEPT !.writer.pc = "delete"]
    /\ UNCHANGED <<calls, audit, scanconst>>

\* Remove 546-551: DeletePage for every page of the deleted page set (the
\* set is empty at the end of an Insert); the call returns
WriterDelete ==
    /\ status = "ok"
    /\ threads.writer.pc = "delete"
    /\ bpm' = Pool_Deleted(bpm, threads.writer.del)
    /\ audit' = [op |-> "DeletePage", del |-> threads.writer.del]
    /\ threads' = [threads EXCEPT !.writer = NoWriterCall]
    /\ calls' = calls + 1
    /\ UNCHANGED <<tree, store, status, root_latch_, latches, scanconst>>

ScanSteps == ScanBegin \/ ScanFetch \/ ScanLatch \/ ScanBody \/ ScanIncr \/ ScanTry

WriterSteps ==
    \/ \E op \in {"Insert", "Remove"}, key \in 1..(ScanLoad + 1) : WriterCall(op, key)
    \/ WriterSibling
    \/ WriterRelease
    \/ WriterDelete

NextScan == ScanSteps \/ WriterSteps

SpecScan == InitScan /\ [][NextScan]_vars

\* ------------------------------------------ properties of the starved calls
\* C24: an Insert, Remove or Get_Value that meets an exhausted buffer pool,
\* in the descent or while it fetches a sibling during underflow handling,
\* fails with an error and leaves the tree as it was before the call: the
\* same root and the same pages, so the same stored pairs.
C24_ExhaustedPoolNoChange ==
    [][audit'.op = "exhausted" =>
        /\ last'.res = "throw"
        /\ tree'.root = tree.root
        /\ tree'.mem = tree.mem]_vars

\* ------------------------------- properties of calls without a transaction
\* C25: Insert(key, value) and Remove(key) called without a transaction on
\* a tree that is not empty return normally and perform the insertion or
\* the removal: afterwards Get_Value finds the inserted pair (the old pair
\* when the key was present), and does not find the removed key.
C25_NullTransaction ==
    [][calls' = calls + 1 /\ tree.root # INVALID_PAGE_ID =>
        /\ last'.res # "throw"
        /\ last'.op = "Insert" =>
            /\ last'.res = (IF last'.had THEN "false" ELSE "true")
            /\ GetNext(last'.key)
                = (IF last'.had THEN GetNow(last'.key) ELSE <<"true", last'.val>>)
        /\ last'.op = "Remove" => GetNext(last'.key) = <<"false", 0>>]_vars

\* ------------------------------------- properties of the scan beside a writer
\* pin count of the frame that holds page_id (0 if the page is not resident)
Pin_Count(b, page_id) ==
    IF b.page_table_[page_id] = NoFrame THEN 0
    ELSE b.pages_[b.page_table_[page_id]].pin_count

\* the step is the TryRLatch of operator++, and it fails
Try_Fails == threads.scan.pc = "try" /\ threads'.scan.pc # "try" /\ ~PageShareable(threads.scan.next)

\* C26: when ++ on the last entry of a leaf cannot read-latch the next leaf
\* at once, the iterator becomes equal to End() and gives up the latch and
\* the pin of the leaf it was on.
C26_FailedTryEndsIterator ==
    [][Try_Fails =>
        /\ threads'.scan.it = End
        /\ <<threads.scan.it.page_id, "scan", "R">> \notin latches'
        /\ Pin_Count(bpm', threads.scan.it.page_id) < Pin_Count(bpm, threads.scan.it.page_id)]_vars

\* no key occurs twice in the result of the loop
No_Repeat(result) ==
    \A i, j \in 1..Len(result) : i < j => result[i] # result[j]

\* the reader holds leaf A and wants its right sibling B, the writer holds B
\* and wants A: no ++ of the reader can latch B, and the writer waits for
\* the reader to let go of A
Latch_Cycle ==
    /\ threads.scan.pc \in {"body", "incr", "try"}
    /\ threads.scan.it.index = Get_Size(Content(tree.mem, threads.scan.it.page_id)) - 1
    /\ <<Get_Next_Page_Id(Content(tree.mem, threads.scan.it.page_id)), "writer", "W">> \in latches
    /\ threads.writer.want # <<>>
    /\ Head(threads.writer.want) = threads.scan.it.page_id

\* C27: a loop over the iterator that runs beside the Insert and Remove
\* calls of another thread never comes into the cycle in which the reader
\* holds leaf A and wants its right sibling B while the writer holds B and
\* wants A, and it yields no key twice (so it ends after as many steps as
\* there are keys).
C27_ScanEndsWithoutRepeat ==
    /\ No_Repeat(threads.scan.result)
    /\ ~Latch_Cycle

\* ------------------------------------ properties of the pessimistic descent
\* thread t has reached the leaf in the second round of Get_Leaf_Page
At_Leaf_Second(t) == threads[t].pc = "atleaf" /\ ~threads[t].first_round

\* entry i of the page set of thread t is a page that is safe for the call
Safe_In_Set(t, i) ==
    /\ threads[t].ps[i] # NullPtr
    /\ Is_Safe_Page(Content(tree.mem, threads[t].ps[i]),
                    Is_Leaf(Content(tree.mem, threads[t].ps[i])),
                    threads[t].ps[i] = tree.root, threads[t].op,
                    leaf_max_size_, internal_max_size_)

\* thread t holds what entry j of its page set stands for
Holds_Entry(t, j) ==
    IF threads[t].ps[j] = NullPtr THEN <<t, "X">> \in root_latch_
    ELSE <<threads[t].ps[j], t, "W">> \in latches

\* C28 as stated: at the leaf of the second round, the thread holds nothing
\* above a page of its path that is safe for the operation (neither an
\* ancestor's write latch nor root_latch_).
C28_AncestorsReleased ==
    \A t \in DOMAIN threads :
        At_Leaf_Second(t) =>
            \A i \in 1..Len(threads[t].ps) :
                Safe_In_Set(t, i) => \A j \in 1..(i - 1) : ~Holds_Entry(t, j)

\* C28: in the second round of Get_Leaf_Page nothing is released: at the
\* leaf the thread holds root_latch_ exclusively and the write latch of
\* every page of the path from the root to the leaf, and its page set is
\* root_latch_ followed by that path.
C28_FullPathHeld ==
    \A t \in DOMAIN threads :
        At_Leaf_Second(t) =>
            /\ threads[t].ps =
                  <<NullPtr>> \o Descend(tree.mem, internal_max_size_, tree.root,
                                         threads[t].key, <<>>, DescentFuel).path
            /\ \A j \in 1..Len(threads[t].ps) : Holds_Entry(t, j)

\* a thread is at the leaf in the second round, below a page that is safe
\* for its call
C28_Witness ==
    \E t \in DOMAIN threads :
        /\ At_Leaf_Second(t)
        /\ Len(threads[t].ps) >= 3
        /\ \E i \in 2..(Len(threads[t].ps) - 1) : Safe_In_Set(t, i)

\* ------------------------------------------- properties of the deferred deletion
\* the pins the scanning thread holds on page_id
Scan_Pins(page_id) ==
    (IF threads.scan.pc \in {"body", "incr", "try"} /\ threads.scan.it.page_id = page_id
     THEN 1 ELSE 0)
    + (IF threads.scan.pc = "try" /\ threads.scan.next = page_id THEN 1 ELSE 0)
    + (IF threads.scan.pc \in {"fetch", "latch"} /\ threads.scan.prev = page_id THEN 1 ELSE 0)
    + (IF threads.scan.pc = "latch" /\ threads.scan.child = page_id THEN 1 ELSE 0)

\* the step applies DeletePage to the deleted page set of the Remove
Deletes == threads.writer.pc = "delete" /\ threads'.writer.pc = "idle"

Holds_Root(rl, t) == \E h \in rl : h[1] = t

\* the step is the turn of Get_Leaf_Page in which thread t, in the first
\* round, has latched a leaf, has let go of what it held above it and asks
\* whether the leaf is the root (child == root_page_id_)
Root_Test(t) ==
    /\ threads[t].pc = "descend"
    /\ threads[t].first_round
    /\ threads[t].child \in PageIds
    /\ Is_Leaf(Content(tree.mem, threads[t].child))
    /\ threads'[t] # threads[t]

\* the step is one of thread t in which root_page_id_ changes
Root_Write(t) == tree'.root # tree.root /\ threads'[t] # threads[t]

\* C30: a thread reads root_page_id_ only while it holds root_latch_, also
\* for the root-ness test after the leaf is reached, and writes it only
\* while it holds root_latch_ exclusively (Insert on an empty tree takes and
\* gives back the exclusive latch within the step).
C30_RootIdUnderLatch ==
    [][\A t \in DOMAIN threads :
          /\ Root_Test(t) => Holds_Root(root_latch_', t)
          /\ Root_Write(t) => (<<t, "X">> \in root_latch_ \/ threads[t].pc = "upgrade")]_vars


\* ------------------------------------------- C31: bytes read under a latch
\* Get_Leaf_Page 858-859: thread t has fetched the page it goes to next and
\* has read its type flag (a step of a thread runs up to the WLatch / RLatch
\* it waits at, 864 / 871 / 880)
Flag_Read(t) ==
    /\ threads[t].pc = "descend"
    /\ threads[t].child \in Tree_Pages(tree, internal_max_size_)

\* thread t holds the read or the write latch of page_id
Holds_Page(t, page_id) == \E h \in latches : h[1] = page_id /\ h[2] = t

\* C31: a thread that has read bytes of a page of the tree holds the read or
\* the write latch of that page, and a thread that is to write the pages of
\* its page set holds their write latches.
C31_LatchedAccess ==
    \A t \in Writers :
        /\ Flag_Read(t) => Holds_Page(t, threads[t].child)
        /\ threads[t].pc = "atleaf" =>
              \A i \in 1..Len(threads[t].ps) :
                  threads[t].ps[i] # NullPtr => <<threads[t].ps[i], t, "W">> \in latches


\* ----------------------------------------------- C32: pins around latches
\* the threads that hold a latch of page_id
Latch_Holders(page_id) == {h[2] : h \in {g \in latches : g[1] = page_id}}

\* the scanning thread takes a latch of a page in this step
Scan_Latches(page_id) ==
    /\ <<page_id, "scan", "R">> \in latches'
    /\ <<page_id, "scan", "R">> \notin latches

Asked == audit # NoAudit

\* C33 as claimed: Get_Min_Size(max) is the ceiling of (max + 1) / 2, and
\* Is_Underflow holds exactly of the sizes below it.
C33_MinSizeIsCeiling ==
    Asked =>
        /\ 2 * audit.min_size \in {leaf_max_size_ + 1, leaf_max_size_ + 2}
        /\ audit.underflow = (audit.size < audit.min_size)

\* C33: Get_Min_Size(max) is the floor of (max + 1) / 2, which is the
\* ceiling of max / 2, and Is_Underflow holds exactly of the sizes below it.
C33_MinSizeIsFloor ==
    Asked =>
        /\ 2 * audit.min_size \in {leaf_max_size_, leaf_max_size_ + 1}
        /\ audit.underflow = (audit.size < audit.min_size)

\* a node of even capacity asked about at its smallest size
C33_Witness ==
    /\ Asked
    /\ leaf_max_size_ = 4
    /\ audit.size = 2
    /\ ~audit.underflow


\* ------------------------------------------- C34: what a safe page promises
\* C34: a leaf that Is_Safe_Page reports safe neither underflows nor fills up
\* under the operation asked about: a leaf that is not the root and is safe
\* for Remove keeps at least Get_Min_Size(L) keys when one key is removed,
\* and a leaf safe for Insert is not full when one key is added.
C34_SafeMeansNoRestructure ==
    (Asked /\ audit.safe /\ audit.is_leaf) =>
        /\ (audit.op = "Remove" /\ ~audit.is_root) => audit.size - 1 >= audit.min_size
        /\ audit.op = "Insert" => audit.size + 1 < leaf_max_size_


\* --------------------------------------- C35: the size of an internal node
\* C35: no internal page ever holds more than internal_max_size_ keys (and
\* so no more than internal_max_size_ + 1 children): InternalNode::Insert
\* and Merge_Into write no key slot at an index >= internal_max_size_.
C35_InternalNodeFits ==
    \A pid \in PageIds :
        ~Is_Leaf(Content(tree.mem, pid)) =>
            Get_Size(Content(tree.mem, pid)) <= internal_max_size_


\* ------------------------------------------------------- C36: Begin(key)
\* the stored keys that are not less than key, and the least key of a set
Stored_From(key) == {k \in Keys : k >= key /\ store[k] # 0}
Least(S) == CHOOSE k \in S : \A j \in S : k <= j

\* b = [st, it] is what Begin(key) should return
Begin_As_Claimed(key, b) ==
    /\ b.st = "ok"
    /\ IF Stored_From(key) = {} THEN b.it = End
       ELSE /\ b.it # End
            /\ b.it.index < Get_Size(Content(tree.mem, b.it.page_id))
            /\ Deref(tree, leaf_max_size_, b.it)
                  = <<Least(Stored_From(key)), store[Least(Stored_From(key))]>>

\* C36: Begin(key) returns an iterator on the first stored entry whose key
\* is >= key, and End() if there is none; the iterator it returns is never
\* on a slot at an index >= the size of its leaf.
C36_BeginAtLowerBound ==
    status = "ok" =>
        \A key \in Keys : Begin_As_Claimed(key, BeginAt(tree, internal_max_size_, key))


\* ------------------------------------------------------ C37: quiescence
\* no call of the writer is in progress (the last one returned, or threw)
\* and no iterator is alive
At_Rest ==
    /\ threads.scan.pc \in {"begin", "done"}
    /\ threads.writer.pc = "idle" \/ status = "fatal"

\* C37: whenever no operation is in progress and no iterator is alive, also
\* after a call that threw, root_latch_ is free, no page latch is held and
\* every frame's pin count is zero.
C37_Quiescence ==
    At_Rest =>
        /\ root_latch_ = {}
        /\ latches = {}
        /\ \A p \in PageIds : Pin_Count(bpm, p) = 0


\* ------------------------------------------ C38: page table and frames
\* C38: every page id a frame carries is mapped to that frame and to no
\* other, the frame a page id is mapped to carries that id, no two frames
\* carry the same page id, and no frame is both on the free list and in the
\* page table.
C38_PageTableConsistent ==
    /\ \A f \in PoolFramesOf(bpm) :
          bpm.pages_[f].page_id # INVALID_PAGE_ID =>
              bpm.page_table_[bpm.pages_[f].page_id] = f
    /\ \A p \in PageIds :
          bpm.page_table_[p] # NoFrame => bpm.pages_[bpm.page_table_[p]].page_id = p
    /\ \A f \in PoolFramesOf(bpm), g \in PoolFramesOf(bpm) :
          (f # g /\ bpm.pages_[f].page_id # INVALID_PAGE_ID) =>
              bpm.pages_[f].page_id # bpm.pages_[g].page_id
    /\ \A i \in 1..Len(bpm.free_list_), p \in PageIds :
          bpm.page_table_[p] # bpm.free_list_[i]


\* ------------------------------------------------- C39: the meta page
\* the page holds what the meta page holds, a page id in its first word and
\* nothing else: no node has been set up in it (a leaf has its next page id
\* behind the header, an internal page of the tree at least one key)
Meta_Only(p) == \A i \in 1..(PageWords - 1) : W(p, i) = 0

\* C39: page 0 is the meta page: root_page_id_ is never 0, no node (root,
\* leaf or internal page, pages made by splits included) is set up in page
\* 0, and when the tree has been closed the first word of page 0 in the file
\* is the root page id, whatever the calls did to the root.
C39_MetaPageReserved ==
    /\ tree.root # 0
    /\ Meta_Only(tree.mem[0])
    /\ Meta_Only(tree.disk[0])
    /\ status = "closed" => W(tree.disk[0], 0) = tree.root

\* frame f holds the same page after the step and is still dirty
Stays_Dirty(f) ==
    /\ bpm'.pages_[f].is_dirty
    /\ bpm'.pages_[f].page_id = bpm.pages_[f].page_id

\* the step is a FlushPage or an eviction (the victim of a FetchPage or a
\* NewPage) that leaves the bytes of frame f on the disk
Written_Out(f) ==
    /\ \/ audit'.op = "FlushPage" /\ audit'.page_id = bpm.pages_[f].page_id
       \/ audit'.op \in {"FetchPage", "NewPage"} /\ audit'.victim = f
    /\ bpm'.disk[bpm.pages_[f].page_id] = bpm.pages_[f].data

\* the step is the DeletePage that gives up the page of frame f
Deleted(f) ==
    audit'.op = "DeletePage" /\ audit'.res = "true" /\ audit'.victim = f

\* C40: the dirty flag is sticky. No UnpinPage, whatever flag it passes,
\* clears the dirty flag of a frame, and a dirty frame stays dirty, with its
\* page, until a FlushPage or an eviction writes its bytes to the disk (or
\* DeletePage gives the page up): the bytes of a dirty page are not dropped
\* because a reader unpinned it with is_dirty = false.
C40_DirtySticky ==
    [][\A f \in PoolFramesOf(bpm) :
          bpm.pages_[f].is_dirty =>
              /\ audit'.op = "UnpinPage" => Stays_Dirty(f)
              /\ Stays_Dirty(f) \/ Written_Out(f) \/ Deleted(f)]_vars

\* a page that is dirty was just unpinned with is_dirty = false (a call with
\* is_dirty = true would have set audit.know), holds bytes the disk does not
\* have, and is still dirty
C40_Witness ==
    /\ audit.op = "UnpinPage"
    /\ audit.res = "true"
    /\ audit.know[audit.page_id] = NoDemand
    /\ bpm.pages_[bpm.page_table_[audit.page_id]].is_dirty
    /\ bpm.pages_[bpm.page_table_[audit.page_id]].data # bpm.disk[audit.page_id]

====
